---- MODULE Spec2Model ----
(***************************************************************************)
(* Model of the vehicle tracker of the traffic-camera pipeline:            *)
(* HTTPVideoProcessingFunction/processing.py, class VehicleTracker and the *)
(* frame loop and end-of-clip aggregation of process_video_clip.           *)
(*                                                                         *)
(* Units.  Pixel coordinates are integers.  A time is kept as the whole     *)
(* number of milliseconds that names it (40 for the float 0.04) and is     *)
(* turned into that float where the code computes with it.  Speeds are     *)
(* IEEE 754 binary64 floats in km/h, computed operation by operation as    *)
(* the code computes them.                                                 *)
(***************************************************************************)
EXTENDS Integers, Sequences, FiniteSets

(***************************************************************************)
(* Program constants (processing.py, lines 23-30 and literals of update).  *)
(***************************************************************************)
DASHED_LINE_DISTANCE == 20
MIN_SPEED_THRESHOLD == 5
MAX_SPEED_THRESHOLD == 200
PIXELS_DASHED_LINE == 245
SPEED_SMOOTHING_WINDOW == 3
\* "dist < 100" of the matcher, in pixels
DISTANCE_GATE == 100
\* "frame_time - lt < 1.0" of the matcher, in seconds
TIME_GATE == 1
\* "frame_time - v['last_position'][2] < 3.0" of the pruning loop, in seconds
GRACE_PERIOD == 3
\* "v['speed'] > 130" of the alert
ALERT_SPEED == 130
\* class_id of a car (line 124); every other class is a truck
CAR_CLASS == 2
\* "len(v['positions']) >= 3" of the result gate
MIN_POSITIONS == 3

(***************************************************************************)
(* Bounds of the model.                                                    *)
(***************************************************************************)
\* number of update calls of one run under Spec (calls at arbitrary times)
MaxCalls == 3
\* number of frames of one clip under SpecClip (frames 1/fps apart)
MaxFrames == 5
\* number of frames of the clip that is processed twice under SpecRerun
MaxRerunFrames == 4
\* update calls under SpecBand
MaxBandCalls == 3
\* update calls under SpecDir
MaxDirCalls == 3
\* update calls under SpecScenario
MaxScenarioCalls == 3
\* frames of the clip under SpecBlob
MaxBlobFrames == 3

(***************************************************************************)
(* Integer helpers.                                                        *)
(***************************************************************************)
Abs(x) == IF x < 0 THEN -x ELSE x

\* largest r with r * r <= n, by Newton's iteration from x >= sqrt(n)
RECURSIVE ISqrtFrom(_, _)
ISqrtFrom(n, x) ==
    IF n = 0 THEN 0
    ELSE IF (x + n \div x) \div 2 >= x THEN x
    ELSE ISqrtFrom(n, (x + n \div x) \div 2)

\* dx^2 + dy^2 of two integer offsets
Dist2(dx, dy) == dx * dx + dy * dy

(***************************************************************************)
(* Natural numbers beyond the range of the checker's integers: sequences   *)
(* of limbs in base 2^15, least significant first, no leading zero limb.   *)
(***************************************************************************)
BASE == 32768

BFromInt(n) ==
    IF n = 0 THEN <<>>
    ELSE IF n < BASE THEN <<n>>
    ELSE IF n \div BASE < BASE THEN <<n % BASE, n \div BASE>>
    ELSE <<n % BASE, (n \div BASE) % BASE, n \div (BASE * BASE)>>

\* a without the zero limbs at its high end
RECURSIVE BTrim(_)
BTrim(a) ==
    IF a = <<>> THEN a
    ELSE IF a[Len(a)] = 0 THEN BTrim(SubSeq(a, 1, Len(a) - 1))
    ELSE a

BLimb(a, i) == IF i <= Len(a) THEN a[i] ELSE 0

\* -1, 0, 1 as a < b, a = b, a > b
BCmp(a, b) ==
    LET RECURSIVE From(_)
        From(i) == IF i = 0 THEN 0
                   ELSE IF a[i] < b[i] THEN -1
                   ELSE IF a[i] > b[i] THEN 1
                   ELSE From(i - 1)
    IN  IF Len(a) < Len(b) THEN -1
        ELSE IF Len(a) > Len(b) THEN 1
        ELSE From(Len(a))

BAdd(a, b) ==
    LET RECURSIVE From(_, _)
        From(i, carry) ==
            IF i > Len(a) /\ i > Len(b) THEN (IF carry = 0 THEN <<>> ELSE <<carry>>)
            ELSE <<(BLimb(a, i) + BLimb(b, i) + carry) % BASE>>
                    \o From(i + 1, (BLimb(a, i) + BLimb(b, i) + carry) \div BASE)
    IN  From(1, 0)

\* a - b for a >= b
BSub(a, b) ==
    LET RECURSIVE From(_, _)
        From(i, borrow) ==
            IF i > Len(a) THEN <<>>
            ELSE <<(a[i] - BLimb(b, i) - borrow + BASE) % BASE>>
                    \o From(i + 1, IF a[i] - BLimb(b, i) - borrow < 0 THEN 1 ELSE 0)
    IN  BTrim(From(1, 0))

\* a * k for 0 <= k < BASE
BMulSmall(a, k) ==
    LET RECURSIVE From(_, _)
        From(i, carry) ==
            IF i > Len(a) THEN (IF carry = 0 THEN <<>> ELSE <<carry>>)
            ELSE <<(a[i] * k + carry) % BASE>> \o From(i + 1, (a[i] * k + carry) \div BASE)
    IN  IF k = 0 THEN <<>> ELSE From(1, 0)

\* a * BASE^n
BShiftLimbs(a, n) == IF a = <<>> THEN a ELSE [i \in 1..n |-> 0] \o a

\* the number of bits of 0 < k < BASE
RECURSIVE BitsOf(_)
BitsOf(k) == IF k = 0 THEN 0 ELSE 1 + BitsOf(k \div 2)

BBitLen(a) == IF a = <<>> THEN 0 ELSE 15 * (Len(a) - 1) + BitsOf(a[Len(a)])

\* a * 2^n
BShl(a, n) ==
    IF n % 15 = 0 THEN BShiftLimbs(a, n \div 15)
    ELSE BShiftLimbs(BMulSmall(a, 2 ^ (n % 15)), n \div 15)

\* a divided by 0 < k < BASE, from limb i down: the quotient limbs so far are q
\* and the remainder so far is rem
RECURSIVE BShort(_, _, _, _, _)
BShort(a, k, i, q, rem) ==
    IF i = 0 THEN [q |-> BTrim(q), r |-> BFromInt(rem)]
    ELSE BShort(a, k, i - 1, <<(rem * BASE + a[i]) \div k>> \o q, (rem * BASE + a[i]) % k)

\* floor(a / 2^n)
BShr(a, n) ==
    IF n \div 15 >= Len(a) THEN <<>>
    ELSE IF n % 15 = 0 THEN SubSeq(a, n \div 15 + 1, Len(a))
    ELSE BShort(SubSeq(a, n \div 15 + 1, Len(a)), 2 ^ (n % 15),
                Len(a) - n \div 15, <<>>, 0).q

\* long division of a by b, from limb i of a down: the quotient limbs found so
\* far are q, the running remainder is r; d is the candidate for the next
\* quotient limb and p = d * b.  The first candidate is estimated from the
\* leading limbs and is at most 2 too large; b has its top bit set in its top
\* limb.
RECURSIVE BLong(_, _, _, _, _)
RECURSIVE BLongTry(_, _, _, _, _, _, _)
BLong(a, b, i, q, r) ==
    LET rem == BTrim(<<a[i]>> \o r)
        est == (BLimb(rem, Len(b) + 1) * BASE + BLimb(rem, Len(b))) \div b[Len(b)]
        d   == IF est > BASE - 1 THEN BASE - 1 ELSE est
    IN  IF i = 0 THEN [q |-> q, r |-> r]
        ELSE BLongTry(a, b, i, q, rem, d, BMulSmall(b, d))

BLongTry(a, b, i, q, r, d, p) ==
    IF BCmp(p, r) > 0 THEN BLongTry(a, b, i, q, r, d - 1, BSub(p, b))
    ELSE BLong(a, b, i - 1, <<d>> \o q, BSub(r, p))

\* [q |-> floor(a / b), r |-> a mod b] for b > 0: a and b are scaled by s bits,
\* so that the top limb of b has its top bit set; the first Len(b) - 1 limbs of
\* a are less than b and give no quotient limb
BDivMod(a, b) ==
    LET s  == 15 - BitsOf(b[Len(b)])
        sa == BShl(a, s)
        sb == BShl(b, s)
        qr == BLong(sa, sb, Len(sa) - Len(sb) + 1, <<>>,
                    SubSeq(sa, Len(sa) - Len(sb) + 2, Len(sa)))
    IN  IF Len(b) = 1 THEN BShort(a, b[1], Len(a), <<>>, 0)
        ELSE IF Len(sa) < Len(sb) THEN [q |-> <<>>, r |-> a]
        ELSE [q |-> BTrim(qr.q), r |-> BShr(qr.r, s)]

\* floor(sqrt(n)) by Newton's iteration from x >= sqrt(n)
RECURSIVE BNewton(_, _)
BNewton(n, x) ==
    LET y == BShr(BAdd(x, BDivMod(n, x).q), 1)
    IN  IF BCmp(y, x) >= 0 THEN x ELSE BNewton(n, y)

(***************************************************************************)
(* IEEE 754 binary64 numbers, the floats of Python and numpy, with the     *)
(* rounding to nearest, ties to even, of every operation.  A float is      *)
(* sign * mant * 2^exp with sign in {-1, 0, 1}, mant a natural number of   *)
(* exactly 53 bits (none for zero).  Subnormal numbers, infinities and     *)
(* NaN are outside the range of the values of the tracker.                 *)
(***************************************************************************)
MANT_BITS == 53

Zero == [sign |-> 0, mant |-> <<>>, exp |-> 0]

\* the float nearest to sign * (m + f) * 2^exp, where 0 <= f < 1 and f > 0 iff
\* sticky; with sticky, m has more than MANT_BITS bits.  m has drop bits more
\* than MANT_BITS: kept is the mantissa, guard the bit lost below it, and lost
\* tells whether anything was lost below the guard bit.  The result is rounded
\* up when the guard bit is set and either something was lost below it or the
\* mantissa is odd (ties to even), and renormalised when rounding up gave one
\* bit more.
Round(sign, m, exp, sticky) ==
    LET drop  == BBitLen(m) - MANT_BITS
        kept  == BShr(m, drop)
        guard == (BLimb(m, (drop - 1) \div 15 + 1) \div (2 ^ ((drop - 1) % 15))) % 2
        lost  == \/ sticky
                 \/ \E i \in 1..((drop - 1) \div 15) : BLimb(m, i) # 0
                 \/ BLimb(m, (drop - 1) \div 15 + 1) % (2 ^ ((drop - 1) % 15)) # 0
        up    == BAdd(kept, <<1>>)
    IN  IF m = <<>> THEN Zero
        ELSE IF drop <= 0
        THEN [sign |-> sign, mant |-> BShl(m, -drop), exp |-> exp + drop]
        ELSE IF guard = 1 /\ (lost \/ kept[1] % 2 = 1)
        THEN (IF BBitLen(up) > MANT_BITS
              THEN [sign |-> sign, mant |-> BShr(up, 1), exp |-> exp + drop + 1]
              ELSE [sign |-> sign, mant |-> up, exp |-> exp + drop])
        ELSE [sign |-> sign, mant |-> kept, exp |-> exp + drop]

\* the float nearest to sign * (n / d) * 2^exp for naturals n, d > 0: n is
\* shifted by k bits so that the quotient has at least MANT_BITS + 2 bits
RoundRatio(sign, n, d, exp) ==
    LET k  == IF BBitLen(d) + MANT_BITS + 2 > BBitLen(n)
              THEN BBitLen(d) + MANT_BITS + 2 - BBitLen(n) ELSE 0
        qr == BDivMod(BShl(n, k), d)
    IN  Round(sign, qr.q, exp - k, qr.r # <<>>)

Sign(k) == IF k < 0 THEN -1 ELSE IF k > 0 THEN 1 ELSE 0

\* float(k) for an integer k
FromInt(k) == Round(Sign(k), BFromInt(Abs(k)), 0, FALSE)

\* the float of the quotient p / q of two integers, q # 0
FromRatio(p, q) ==
    IF p = 0 THEN Zero
    ELSE RoundRatio(Sign(p) * Sign(q), BFromInt(Abs(p)), BFromInt(Abs(q)), 0)

\* -1, 0, 1 as a < b, a = b, a > b; numbers of one sign go by the exponent,
\* then by the mantissa
FCmp(a, b) ==
    IF a.sign # b.sign THEN (IF a.sign < b.sign THEN -1 ELSE 1)
    ELSE IF a.sign = 0 THEN 0
    ELSE IF a.exp < b.exp THEN -a.sign
    ELSE IF a.exp > b.exp THEN a.sign
    ELSE a.sign * BCmp(a.mant, b.mant)

FLess(a, b) == FCmp(a, b) < 0

\* int(a): a cut towards zero, for |a| < 2^30
Truncated(a) ==
    LET cut == IF a.exp >= 0 THEN BShl(a.mant, a.exp) ELSE BShr(a.mant, -a.exp)
    IN  IF a.sign = 0 THEN 0 ELSE a.sign * (BLimb(cut, 1) + BASE * BLimb(cut, 2))

\* a + b: the mantissas ma, mb are brought to the lower exponent and added or
\* subtracted as signed magnitudes; an operand more than 64 binary places
\* below the other is lost
FAdd(a, b) ==
    LET exp == IF a.exp >= b.exp THEN b.exp ELSE a.exp
        ma  == BShl(a.mant, a.exp - exp)
        mb  == BShl(b.mant, b.exp - exp)
    IN  IF a.sign = 0 THEN b
        ELSE IF b.sign = 0 THEN a
        ELSE IF a.exp - b.exp > 64 THEN a
        ELSE IF b.exp - a.exp > 64 THEN b
        ELSE IF a.sign = b.sign THEN Round(a.sign, BAdd(ma, mb), exp, FALSE)
        ELSE IF BCmp(ma, mb) = 0 THEN Zero
        ELSE IF BCmp(ma, mb) > 0 THEN Round(a.sign, BSub(ma, mb), exp, FALSE)
        ELSE Round(b.sign, BSub(mb, ma), exp, FALSE)

\* a * b: the product of the mantissas is the sum of the products of a's by
\* the limbs of b's
FMul(a, b) ==
    LET RECURSIVE Product(_)
        Product(i) ==
            IF i > Len(b.mant) THEN <<>>
            ELSE BAdd(BShiftLimbs(BMulSmall(a.mant, b.mant[i]), i - 1), Product(i + 1))
    IN  IF a.sign = 0 \/ b.sign = 0 THEN Zero
        ELSE Round(a.sign * b.sign, Product(1), a.exp + b.exp, FALSE)

\* a / b for b # 0, with the z zero limbs at the low end of b's mantissa moved
\* into the exponent
FDiv(a, b) ==
    LET z == CHOOSE i \in 0..(Len(b.mant) - 1) :
                 b.mant[i + 1] # 0 /\ \A j \in 1..i : b.mant[j] = 0
    IN  IF a.sign = 0 THEN Zero
        ELSE RoundRatio(a.sign * b.sign, a.mant, SubSeq(b.mant, z + 1, Len(b.mant)),
                        a.exp - b.exp - 15 * z)

\* the two floats around the root of a natural n that is not a square, and
\* whether the upper one is the nearer.  The root of n * 4^s is taken with
\* MANT_BITS + 1 bits: without its last bit it is the float below, and the
\* last bit tells the nearer one, since what is lost is never half a unit
FRoots(n) ==
    LET s == (2 * MANT_BITS + 2 - BBitLen(BFromInt(n))) \div 2
        m == BNewton(BShl(BFromInt(n), 2 * s), BShl(<<1>>, MANT_BITS + 1))
    IN  [below |-> [sign |-> 1, mant |-> BShr(m, 1), exp |-> 1 - s],
         above |-> Round(1, BAdd(BShr(m, 1), <<1>>), 1 - s, FALSE),
         up |-> m[1] % 2 = 1]

\* np.sqrt of a natural n, as np.linalg.norm takes it of the sum of squares:
\* correctly rounded; r is the largest integer with r * r <= n
FSqrt(n) ==
    LET r == ISqrtFrom(n, n)
    IN  IF r * r = n THEN FromInt(r)
        ELSE IF FRoots(n).up THEN FRoots(n).above ELSE FRoots(n).below

(***************************************************************************)
(* The float expressions of the code.                                      *)
(***************************************************************************)
\* np.hypot is the hypot of the C library the build links.  The library's error
\* is below one unit in the last place and it is not correctly rounded: a root
\* that is a whole number is returned as it is, any other root comes back as
\* the nearest float or as the float on the other side of the root, and which
\* one depends on the library and on the offsets.  hypot(x, y), hypot(y, x) and
\* hypot(x, -y) are the same value, so the offsets count as |dx|, |dy| in
\* ascending order.
HypotKey(dx, dy) ==
    IF Abs(dx) <= Abs(dy) THEN <<Abs(dx), Abs(dy)>> ELSE <<Abs(dy), Abs(dx)>>

VARIABLE
    libm                \* the offsets for which the hypot of this build returns
                        \* the float on the far side of the root

\* np.hypot(dx, dy) of two integer offsets, lines 68 and 78
Hypot(dx, dy) ==
    LET n == Dist2(dx, dy)
        r == ISqrtFrom(n, n)
    IN  IF r * r = n THEN FromInt(r)
        ELSE IF (HypotKey(dx, dy) \in libm) = FRoots(n).up THEN FRoots(n).below
        ELSE FRoots(n).above

\* the float of a time given in milliseconds: 40 is the float 0.04
Seconds(ms) == FromRatio(ms, 1000)

\* frame_time - t of two times in seconds: the sum of the first and the
\* negated second
Elapsed(frame_time, t) == FAdd(Seconds(frame_time), [Seconds(t) EXCEPT !.sign = -@])

\* frame_time - t < limit, limit a whole number of seconds.  The two floats
\* are within 2^-30 of the times, so the comparison goes as the one of the
\* milliseconds unless these differ by the limit exactly; then the rounding
\* of the two times and of their difference decides.
ElapsedBelow(frame_time, t, limit) ==
    IF frame_time - t # 1000 * limit THEN frame_time - t < 1000 * limit
    ELSE FLess(Elapsed(frame_time, t), FromInt(limit))

\* sum(values) / len(values); the sum is 0 + values[1] + values[2] + ...,
\* added from the left
Mean(values) ==
    LET RECURSIVE Sum(_, _)
        Sum(i, acc) == IF i > Len(values) THEN acc ELSE Sum(i + 1, FAdd(acc, values[i]))
    IN  FDiv(Sum(1, Zero), FromInt(Len(values)))

\* the literal 3.6
KMH_PER_MS == FromRatio(36, 10)

VARIABLE
    PIXELS_PER_METER    \* the module's PIXELS_PER_METER, set at import (line 28)
                        \* and read at line 81

\* the absent 'speed' key of a track without a valid sample
NoSpeed == <<>>

(***************************************************************************)
(* Speed estimation, update lines 76-94.                                   *)
(***************************************************************************)
\* variant: metres per second, the factor 3.6 is missing
SpeedMs(pixels, t_elapsed) == FDiv(FDiv(pixels, PIXELS_PER_METER), t_elapsed)

\* lines 80-81: meters = pixels / PIXELS_PER_METER;
\* speed_kmh = (meters / t_elapsed) * 3.6
SpeedKmh(pixels, t_elapsed) ==
    FMul(FDiv(FDiv(pixels, PIXELS_PER_METER), t_elapsed), KMH_PER_MS)

\* variant: the upper threshold is not checked
PlausibleAbove(speed_kmh) == FLess(FromInt(MIN_SPEED_THRESHOLD), speed_kmh)

\* variant: <= instead of <, the two thresholds are inside the band
PlausibleClosed(speed_kmh) ==
    /\ ~FLess(speed_kmh, FromInt(MIN_SPEED_THRESHOLD))
    /\ ~FLess(FromInt(MAX_SPEED_THRESHOLD), speed_kmh)

\* MIN_SPEED_THRESHOLD < speed_kmh < MAX_SPEED_THRESHOLD, line 82
Plausible(speed_kmh) ==
    /\ FLess(FromInt(MIN_SPEED_THRESHOLD), speed_kmh)
    /\ FLess(speed_kmh, FromInt(MAX_SPEED_THRESHOLD))

\* variant: pop() instead of pop(0), the newest sample is the one dropped
PushSampleNewest(speed_history, speed_kmh) ==
    IF Len(speed_history) + 1 > SPEED_SMOOTHING_WINDOW
    THEN speed_history
    ELSE Append(speed_history, speed_kmh)

\* lines 84-86: append, then pop(0) when longer than the window
PushSample(speed_history, speed_kmh) ==
    IF Len(speed_history) + 1 > SPEED_SMOOTHING_WINDOW
    THEN Tail(Append(speed_history, speed_kmh))
    ELSE Append(speed_history, speed_kmh)

\* variant: the alert is level-triggered, the alerted flag is not consulted
AlertDueLevel(v) == FLess(FromInt(ALERT_SPEED), v.speed)

\* v['speed'] > 130 and not v.get('alerted', False), line 89
AlertDue(v) == FLess(FromInt(ALERT_SPEED), v.speed) /\ ~v.alerted

\* lines 77-82: the sample of the match of track v at (cx, cy, frame_time), from
\* pixels and t_elapsed since the last of its positions
SampleOf(v, cx, cy, frame_time) ==
    LET last == v.positions[Len(v.positions)]
    IN  SpeedKmh(Hypot(cx - last[1], cy - last[2]), Elapsed(frame_time, last[3]))

\* variant: the speed is the newest sample, not the mean
WithHistoryNewest(v, h) == [v EXCEPT !.speed_history = h, !.speed = h[Len(h)]]

\* line 87: the speed is the mean of the window h
WithHistory(v, h) == [v EXCEPT !.speed_history = h, !.speed = Mean(h)]

\* lines 84-87: the sample recorded and the speed smoothed
Smoothed(v, speed_kmh) == WithHistory(v, PushSample(v.speed_history, speed_kmh))

\* the outcome of a match that reaches no alert: the track, and no alert logged
Quiet(v) == [track |-> v, alert |-> FALSE]

\* lines 89-94: when the alert is due it is logged and alerted is set
Latched(v) ==
    IF AlertDue(v) THEN [track |-> [v EXCEPT !.alerted = TRUE], alert |-> TRUE]
    ELSE Quiet(v)

\* lines 82-94: the track after the sample speed_kmh, recorded when it is
\* inside the band, and whether the alert of line 90 was logged
Measured(v, speed_kmh) ==
    IF Plausible(speed_kmh) THEN Latched(Smoothed(v, speed_kmh)) ELSE Quiet(v)

\* line 80: t_elapsed > 0 for t_elapsed = frame_time - pt.  The floats of two
\* different times are different and in the order of the times, and the
\* difference of two different floats is not 0, so the test goes as the one of
\* the milliseconds
TimeElapsed(v, frame_time) == frame_time > v.positions[Len(v.positions)][3]

\* lines 76-94: the matched track after its speed sample at (cx, cy, frame_time)
\* and whether an alert was logged; the track is unchanged when the sample is
\* skipped
SpeedStep(v, cx, cy, frame_time) ==
    IF v.positions # <<>> /\ TimeElapsed(v, frame_time)
    THEN Measured(v, SampleOf(v, cx, cy, frame_time))
    ELSE Quiet(v)

\* lines 76-83: TRUE when the match of track v at (cx, cy, frame_time) yields a
\* sample that is recorded (positive elapsed time, speed inside the band)
SampleValid(v, cx, cy, frame_time) ==
    /\ v.positions # <<>>
    /\ TimeElapsed(v, frame_time)
    /\ Plausible(SampleOf(v, cx, cy, frame_time))

\* variant: the displacement of the last two positions, not of the whole history
DirectionLastTwo(positions) ==
    LET dx == positions[Len(positions)][1] - positions[Len(positions) - 1][1]
        dy == positions[Len(positions)][2] - positions[Len(positions) - 1][2]
    IN  IF (Abs(dx) > Abs(dy) /\ dx < 0) \/ (Abs(dy) >= Abs(dx) /\ dy < 0)
        THEN "inbound" ELSE "outbound"

\* direction of a result record, lines 101-107
Direction(positions) ==
    LET dx == positions[Len(positions)][1] - positions[1][1]
        dy == positions[Len(positions)][2] - positions[1][2]
    IN  IF (Abs(dx) > Abs(dy) /\ dx < 0) \/ (Abs(dy) >= Abs(dx) /\ dy < 0)
        THEN "inbound" ELSE "outbound"

(***************************************************************************)
(* VehicleTracker.update, lines 42-139.  tracked_vehicles is a dict; it is *)
(* modelled as the sequence of its values in iteration (insertion) order.  *)
(***************************************************************************)
\* cx, cy = x + w // 2, y + h // 2
Centroid(det) == <<det.x + det.w \div 2, det.y + det.h \div 2>>

\* 'car' if class_id == 2 else 'truck'
TypeOf(class_id) == IF class_id = CAR_CLASS THEN "car" ELSE "truck"

\* lines 56-57
Unmatch(tv) == [i \in 1..Len(tv) |-> [tv[i] EXCEPT !.matched = FALSE]]

\* lines 65-66: a track already matched in this call is skipped
\* variant: the matched flag is not consulted
UnclaimedAlways(v) == TRUE

Unclaimed(v) == ~v.matched

\* variant: the time gate is missing
InGateDistanceOnly(v, cx, cy, frame_time) ==
    Dist2(cx - v.last_position[1], cy - v.last_position[2])
        < DISTANCE_GATE * DISTANCE_GATE

\* variant: the distance gate is missing
InGateTimeOnly(v, cx, cy, frame_time) ==
    ElapsedBelow(frame_time, v.last_position[3], TIME_GATE)

\* the time gate and the distance gate of line 69.  dist < 100 is decided on
\* dx^2 + dy^2: the root of a whole number is below 100 exactly when the number
\* is below 100^2, and then both floats around the root are below 100
InGate(v, cx, cy, frame_time) ==
    /\ ElapsedBelow(frame_time, v.last_position[3], TIME_GATE)
    /\ Dist2(cx - v.last_position[1], cy - v.last_position[2])
          < DISTANCE_GATE * DISTANCE_GATE

\* "dist < min_dist" of line 69, both inside the distance gate and given by
\* the offsets <<dx, dy>> they are the np.hypot of; <<>> stands for
\* float('inf').  The roots of two different whole numbers below 100^2 are more
\* than 1/200 apart, so their floats are in the order of the numbers; the same
\* offsets give the same float; different offsets of the same length
\* (52^2 + 17^2 = 28^2 + 47^2) are compared as the floats the library returns
Closer(dist, min_dist) ==
    \/ min_dist = <<>>
    \/ Dist2(dist[1], dist[2]) < Dist2(min_dist[1], min_dist[2])
    \/ /\ Dist2(dist[1], dist[2]) = Dist2(min_dist[1], min_dist[2])
       /\ HypotKey(dist[1], dist[2]) # HypotKey(min_dist[1], min_dist[2])
       /\ FLess(Hypot(dist[1], dist[2]), Hypot(min_dist[1], min_dist[2]))

\* lines 62-71: the loop over tracked_vehicles from position i on, carrying
\* matched_id (as a position in tv, 0 for None) and min_dist (as offsets)
RECURSIVE Scan(_, _, _, _, _, _, _)
Scan(tv, i, cx, cy, frame_time, matched_at, min_dist) ==
    IF i > Len(tv) THEN matched_at
    ELSE LET v    == tv[i]
             dist == <<cx - v.last_position[1], cy - v.last_position[2]>>
         IN  IF Unclaimed(v) /\ InGate(v, cx, cy, frame_time) /\ Closer(dist, min_dist)
             THEN Scan(tv, i + 1, cx, cy, frame_time, i, dist)
             ELSE Scan(tv, i + 1, cx, cy, frame_time, matched_at, min_dist)

FindMatch(tv, cx, cy, frame_time) == Scan(tv, 1, cx, cy, frame_time, 0, <<>>)

\* variant: line 96 is missing, last_position stays where it was
MovedNotLast(v, cx, cy, frame_time) ==
    [v EXCEPT !.positions = Append(v.positions, <<cx, cy, frame_time>>)]

\* lines 96-97
Moved(v, cx, cy, frame_time) ==
    [v EXCEPT !.last_position = <<cx, cy, frame_time>>,
              !.positions = Append(v.positions, <<cx, cy, frame_time>>)]

\* lines 74-98: the matched track after the detection is folded into it, and
\* whether the match logged an alert
Extend(v, cx, cy, frame_time) ==
    LET step == SpeedStep([v EXCEPT !.matched = TRUE], cx, cy, frame_time)
    IN  [step EXCEPT !.track = Moved(step.track, cx, cy, frame_time)]

\* variant: the length of the position history is not checked
ReportableAnyLength(v) == v.speed # NoSpeed

\* line 100
Reportable(v) == v.speed # NoSpeed /\ Len(v.positions) >= MIN_POSITIONS

\* lines 108-116
ResultOf(v, cx, cy, frame_time, conf) ==
    [id |-> v.id, type |-> v.type, direction |-> Direction(v.positions),
     speed |-> v.speed, timestamp |-> frame_time, position |-> <<cx, cy>>,
     confidence |-> conf]

\* the logger.warning of lines 90-93
AlertOf(v, cx, cy, frame_time) ==
    [id |-> v.id, type |-> v.type, speed |-> v.speed, time |-> frame_time,
     position |-> <<cx, cy>>]

\* lines 122-131
NewTrack(new_id, det, cx, cy, frame_time) ==
    [id |-> new_id, type |-> TypeOf(det.class_id),
     last_position |-> <<cx, cy, frame_time>>,
     positions |-> <<<<cx, cy, frame_time>>>>,
     speed_history |-> <<>>, speed |-> NoSpeed,
     matched |-> TRUE, alerted |-> FALSE, confidence |-> det.conf]

\* the id a new track gets, line 120
NewId(nid) == nid

\* variant: the counter is not advanced
NextIdStuck(nid) == nid

\* the counter after a new track, line 121
NextIdAfter(nid) == nid + 1

\* lines 73-116: the detection at (cx, cy) goes to the track at position m of
\* the old dict; e holds that track after the detection is folded into it and
\* whether line 90 was reached
Matched(acc, det, cx, cy, frame_time, m, e) ==
    [acc EXCEPT
       !.tv = [acc.tv EXCEPT ![m] = e.track],
       !.updated = Append(acc.updated, e.track),
       !.results = IF Reportable(e.track)
                   THEN Append(acc.results,
                               ResultOf(e.track, cx, cy, frame_time, det.conf))
                   ELSE acc.results,
       !.alerts = IF e.alert
                  THEN Append(acc.alerts, AlertOf(e.track, cx, cy, frame_time))
                  ELSE acc.alerts,
       !.assign = Append(acc.assign, [id |-> e.track.id, new |-> FALSE])]

\* lines 118-131: the detection starts the track new_id
Created(acc, det, cx, cy, frame_time, new_id) ==
    [acc EXCEPT
       !.next_id = NextIdAfter(acc.next_id),
       !.updated = Append(acc.updated, NewTrack(new_id, det, cx, cy, frame_time)),
       !.assign = Append(acc.assign, [id |-> new_id, new |-> TRUE])]

\* line 73: matched_id is not None, or else
Placed(acc, det, cx, cy, frame_time, m) ==
    IF m # 0
    THEN Matched(acc, det, cx, cy, frame_time, m, Extend(acc.tv[m], cx, cy, frame_time))
    ELSE Created(acc, det, cx, cy, frame_time, NewId(acc.next_id))

\* lines 62-131 for the detection det with centroid (cx, cy)
At(acc, det, cx, cy, frame_time) ==
    Placed(acc, det, cx, cy, frame_time, FindMatch(acc.tv, cx, cy, frame_time))

\* lines 59-131 for one detection.  acc carries the call's state: tv (the old
\* dict, mutated in place), updated (updated_vehicles), next_id, results,
\* alerts (the warnings logged) and assign (which track each detection went to).
DetStep(acc, det, frame_time) ==
    At(acc, det, Centroid(det)[1], Centroid(det)[2], frame_time)

RECURSIVE DetLoop(_, _, _)
DetLoop(acc, detections, frame_time) ==
    IF detections = <<>> THEN acc
    ELSE DetLoop(DetStep(acc, Head(detections), frame_time), Tail(detections), frame_time)

\* variant: unmatched tracks are never pruned
KeptForever(v, frame_time) == ~v.matched

\* line 135: an unmatched track is kept while it was seen less than 3 s ago
Kept(v, frame_time) ==
    ~v.matched /\ ElapsedBelow(frame_time, v.last_position[3], GRACE_PERIOD)

\* lines 133-139: the unmatched tracks still in grace follow the matched and
\* the new ones; the new tracker state and what the call produced
Pruned(acc, frame_time) ==
    [tracked_vehicles |->
        acc.updated \o SelectSeq(acc.tv, LAMBDA v : Kept(v, frame_time)),
     next_id |-> acc.next_id, results |-> acc.results,
     alerts |-> acc.alerts, assign |-> acc.assign]

\* lines 52-53 and 56-57: the state a call starts from
Start(tv, nid) ==
    [tv |-> Unmatch(tv), updated |-> <<>>, next_id |-> nid,
     results |-> <<>>, alerts |-> <<>>, assign |-> <<>>]

\* the whole call
UpdateOf(tv, nid, detections, frame_time) ==
    Pruned(DetLoop(Start(tv, nid), detections, frame_time), frame_time)

(***************************************************************************)
(* End-of-clip aggregation, process_video_clip lines 228-235.              *)
(***************************************************************************)
\* position of the record of vid in the sequence u, 0 when there is none
RECURSIVE IndexOfId(_, _, _)
IndexOfId(u, vid, i) ==
    IF i > Len(u) THEN 0 ELSE IF u[i].id = vid THEN i ELSE IndexOfId(u, vid, i + 1)

\* vehicle['speed'] > unique_vehicles[vid]['speed']
\* variant: >= instead of >, a later record of equal speed replaces the kept one
FasterOrEqual(vehicle, kept) == ~FLess(vehicle.speed, kept.speed)

Faster(vehicle, kept) == FLess(kept.speed, vehicle.speed)

\* one iteration of the loop of lines 230-233; unique_vehicles in insertion order
Fold(unique_vehicles, vehicle) ==
    LET i == IndexOfId(unique_vehicles, vehicle.id, 1)
    IN  IF i = 0 THEN Append(unique_vehicles, vehicle)
        ELSE IF Faster(vehicle, unique_vehicles[i])
             THEN [unique_vehicles EXCEPT ![i] = vehicle]
             ELSE unique_vehicles

RECURSIVE Aggregate(_, _)
Aggregate(unique_vehicles, records) ==
    IF records = <<>> THEN unique_vehicles
    ELSE Aggregate(Fold(unique_vehicles, Head(records)), Tail(records))

(***************************************************************************)
(* generate_stats of HTTPVideoProcessingFunction/__init__.py, called by    *)
(* the handler on the results of process_video_clip.  Timestamps and       *)
(* speeds are as above.                                                    *)
(***************************************************************************)
\* __init__.py, lines 31-35
SPEED_LIMITS == [car |-> 90, truck |-> 80, emergency |-> 130]

\* the bounds of the filter, line 128
VALID_SPEED_MIN == 5
VALID_SPEED_MAX == 300

\* calculate_time_stats, line 182: 5 minutes in seconds
interval == 300

\* variant: the filter stops at the emergency limit
ValidBelowEmergency(v) ==
    /\ FLess(FromInt(VALID_SPEED_MIN), v.speed)
    /\ FLess(v.speed, FromInt(SPEED_LIMITS.emergency))

\* line 128: v.get("speed", 0) > 5 and v.get("speed", 0) < 300
Valid(v) ==
    /\ FLess(FromInt(VALID_SPEED_MIN), v.speed)
    /\ FLess(v.speed, FromInt(VALID_SPEED_MAX))

\* lines 126-129
ValidVehicles(results_vehicles) == SelectSeq(results_vehicles, Valid)

\* lines 135-140: the records of one type above the limit of the type
OverLimit(v, type) ==
    v.type = type /\ FLess(FromInt(SPEED_LIMITS[type]), v.speed)

CarViolation(v) == OverLimit(v, "car")
TruckViolation(v) == OverLimit(v, "truck")

\* variant: the alerts of the stats start at the limit of cars
EmergencyAtCarLimit(v) == FLess(FromInt(SPEED_LIMITS.car), v.speed)

\* lines 141-144
Emergency(v) == FLess(FromInt(SPEED_LIMITS.emergency), v.speed)

\* the speeds of a list of records, in order
SpeedsOf(valid_vehicles) == [i \in 1..Len(valid_vehicles) |-> valid_vehicles[i].speed]

\* calculate_lane_stats, lines 157-177: no record has a lane, so all of them
\* count under "unknown"; the dict is empty when there is no record
CalculateLaneStats(valid_vehicles) ==
    IF valid_vehicles = <<>> THEN <<>>
    ELSE [unknown |-> [count |-> Len(valid_vehicles),
                       speeds |-> SpeedsOf(valid_vehicles),
                       avg_speed |-> Mean(SpeedsOf(valid_vehicles))]]

\* line 187: int(timestamp / interval) * interval, the quotient cut towards zero
TimeSlot(timestamp) == Truncated(FDiv(Seconds(timestamp), FromInt(interval))) * interval

\* the position of a time slot in time_stats, in insertion order; 0 if absent
RECURSIVE SlotIndex(_, _, _)
SlotIndex(time_stats, time_slot, i) ==
    IF i > Len(time_stats) THEN 0
    ELSE IF time_stats[i].time_slot = time_slot THEN i
    ELSE SlotIndex(time_stats, time_slot, i + 1)

\* one iteration of the loop of lines 184-193
SlotPut(time_stats, i, time_slot, speed) ==
    IF i = 0
    THEN Append(time_stats, [time_slot |-> time_slot, count |-> 1, speeds |-> <<speed>>])
    ELSE [time_stats EXCEPT ![i].count = @ + 1, ![i].speeds = Append(@, speed)]

RECURSIVE SlotLoop(_, _)
SlotLoop(time_stats, valid_vehicles) ==
    IF valid_vehicles = <<>> THEN time_stats
    ELSE SlotLoop(SlotPut(time_stats,
                          SlotIndex(time_stats, TimeSlot(Head(valid_vehicles).timestamp), 1),
                          TimeSlot(Head(valid_vehicles).timestamp),
                          Head(valid_vehicles).speed),
                  Tail(valid_vehicles))

\* calculate_time_stats, lines 179-202: the slots in insertion order, each with
\* the average of lines 196-200
CalculateTimeStats(valid_vehicles) ==
    LET time_stats == SlotLoop(<<>>, valid_vehicles)
    IN  [i \in 1..Len(time_stats) |->
            [time_slot |-> time_stats[i].time_slot, count |-> time_stats[i].count,
             speeds |-> time_stats[i].speeds, avg_speed |-> Mean(time_stats[i].speeds)]]

\* the dict of lines 131-148 built from valid_vehicles
StatsFrom(valid_vehicles) ==
    [total_vehicles |-> Len(valid_vehicles),
     speed_violations |->
        [cars |-> Len(SelectSeq(valid_vehicles, CarViolation)),
         trucks |-> Len(SelectSeq(valid_vehicles, TruckViolation))],
     high_speed_alerts |-> SelectSeq(valid_vehicles, Emergency),
     lane_stats |-> CalculateLaneStats(valid_vehicles),
     time_stats |-> CalculateTimeStats(valid_vehicles)]

\* generate_stats(video_name, results), lines 113-152
StatsOf(results_vehicles) == StatsFrom(ValidVehicles(results_vehicles))

(***************************************************************************)
(* The blob-triggered variant, BlobVideoProcessingFunction/processing.py:  *)
(* process_video_clip with its own naive tracker.  A vehicle is a record   *)
(* of the fields of class Vehicle; speeds are floats as above.             *)
(***************************************************************************)
FRAME_RATE == 25
SPEED_LIMIT_CAR_KMH == 90
SPEED_LIMIT_TRUCK_KMH == 80
REALTIME_ALERT_SPEED_KMH == 130
\* dist < 50, line 81
MATCH_DISTANCE == 50
\* area < 500, line 65
MIN_AREA == 500

\* int(x + w/2): the float sum cut towards zero
Half(x, w) == Truncated(FAdd(FromInt(x), FDiv(FromInt(w), FromInt(2))))

\* line 72: (int(x + w/2), int(y + h/2))
BlobCentroid(bbox) == <<Half(bbox.x, bbox.w), Half(bbox.y, bbox.h)>>

\* Vehicle(vehicle_id_counter, bbox, vehicle_type='car') and the append of line 91
NewVehicle(id, bbox, centroid) ==
    [id |-> id, bbox |-> bbox, vehicle_type |-> "car", positions |-> <<centroid>>,
     speed_kmh |-> Zero, counted |-> FALSE]

\* lines 78-81: the vehicle has a last position and it is within the threshold
BlobNear(vehicle, centroid) ==
    /\ vehicle.positions # <<>>
    /\ Dist2(centroid[1] - vehicle.positions[Len(vehicle.positions)][1],
             centroid[2] - vehicle.positions[Len(vehicle.positions)][2])
          < MATCH_DISTANCE * MATCH_DISTANCE

\* lines 77-85: the first vehicle in dict order that is near, 0 when none is
RECURSIVE BlobScan(_, _, _)
BlobScan(vs, i, centroid) ==
    IF i > Len(vs) THEN 0
    ELSE IF BlobNear(vs[i], centroid) THEN i
    ELSE BlobScan(vs, i + 1, centroid)

\* lines 82-83
BlobExtended(acc, m, bbox, centroid) ==
    [acc EXCEPT !.vehicles[m].positions = Append(@, centroid),
                !.vehicles[m].bbox = bbox]

\* lines 86-91
BlobCreated(acc, bbox, centroid) ==
    [acc EXCEPT !.vehicles = Append(@, NewVehicle(acc.vehicle_id_counter + 1, bbox, centroid)),
                !.vehicle_id_counter = @ + 1]

BlobPlaced(acc, m, bbox, centroid) ==
    IF m > 0 THEN BlobExtended(acc, m, bbox, centroid)
    ELSE BlobCreated(acc, bbox, centroid)

\* lines 75-91 for one bounding box
BlobStep(acc, bbox) ==
    BlobPlaced(acc, BlobScan(acc.vehicles, 1, BlobCentroid(bbox)), bbox, BlobCentroid(bbox))

\* lines 75-91
RECURSIVE BlobMatchLoop(_, _)
BlobMatchLoop(acc, bboxes) ==
    IF bboxes = <<>> THEN acc
    ELSE BlobMatchLoop(BlobStep(acc, Head(bboxes)), Tail(bboxes))

\* lines 97-99: np.linalg.norm of the difference of the last two positions,
\* the float root of the sum of the squares
PixelDistance(vehicle) ==
    FSqrt(Dist2(vehicle.positions[Len(vehicle.positions)][1]
                   - vehicle.positions[Len(vehicle.positions) - 1][1],
                vehicle.positions[Len(vehicle.positions)][2]
                   - vehicle.positions[Len(vehicle.positions) - 1][2]))

\* line 104: pixel_to_meter = 0.1
PIXEL_TO_METER == FromRatio(1, 10)

\* line 108: time_s = 1 / FRAME_RATE
TIME_S == FDiv(FromInt(1), FromInt(FRAME_RATE))

\* estimate_speed(distance_m, time_s), lines 22-26
EstimateSpeed(distance_m, time_s) ==
    IF time_s.sign = 0 THEN Zero ELSE FMul(FDiv(distance_m, time_s), KMH_PER_MS)

\* line 113
SpeedLimit(vehicle) ==
    IF vehicle.vehicle_type = "car" THEN SPEED_LIMIT_CAR_KMH ELSE SPEED_LIMIT_TRUCK_KMH

\* lines 110-121 for the vehicle at i, whose speed now is speed
BlobMeasured(acc, i, speed) ==
    [acc EXCEPT
       !.vehicles[i].speed_kmh = speed,
       !.speed_violations_count =
           IF FLess(FromInt(SpeedLimit(acc.vehicles[i])), speed) THEN @ + 1 ELSE @,
       !.high_speed_alerts =
           IF FLess(FromInt(REALTIME_ALERT_SPEED_KMH), speed)
           THEN Append(@, [id |-> acc.vehicles[i].id, speed |-> speed])
           ELSE @]

\* lines 95-121 for the vehicle at i
BlobSpeedAt(acc, i) ==
    IF Len(acc.vehicles[i].positions) >= 2
    THEN BlobMeasured(acc, i,
                      EstimateSpeed(FMul(PixelDistance(acc.vehicles[i]), PIXEL_TO_METER),
                                    TIME_S))
    ELSE acc

\* lines 94-121: every vehicle, detected in this frame or not
RECURSIVE BlobSpeedLoop(_, _)
BlobSpeedLoop(acc, i) ==
    IF i > Len(acc.vehicles) THEN acc
    ELSE BlobSpeedLoop(BlobSpeedAt(acc, i), i + 1)

\* lines 62-68: detected_bboxes, the bounding rectangles of the contours that
\* are not small noise.  A contour is given by what the loop reads of it:
\* cv2.boundingRect (x, y, w, h) and cv2.contourArea
DetectedBboxes(contours) ==
    LET kept == SelectSeq(contours, LAMBDA cnt : ~(cnt.area < MIN_AREA))
    IN  [i \in 1..Len(kept) |->
            [x |-> kept[i].x, y |-> kept[i].y, w |-> kept[i].w, h |-> kept[i].h]]

\* one iteration of the frame loop, lines 51-121, on the contours of the frame
BlobFrameOf(acc, contours) ==
    BlobSpeedLoop(BlobMatchLoop(acc, DetectedBboxes(contours)), 1)

(***************************************************************************)
(* Inputs.  Detections are (x, y, w, h, confidence, class_id) boxes; the   *)
(* confidence is kept in percent.                                          *)
(***************************************************************************)
\* a 21 x 11 box whose centroid is (cx, cy)
Box(cx, cy, conf, class_id) ==
    [x |-> cx - 10, y |-> cy - 5, w |-> 21, h |-> 11, conf |-> conf,
     class_id |-> class_id]

B100 == Box(100, 100, 90, 2)
B110 == Box(110, 100, 80, 2)
B120 == Box(120, 100, 70, 2)
B300 == Box(300, 100, 90, 7)

\* the detection lists of one call under Spec
DetLists ==
    { <<>>, <<B100>>, <<B110>>, <<B120>>, <<B300>>,
      <<B100, B120>>, <<B110, B100>> }

\* the detection lists of one call under SpecScenario
ScenarioLists == { <<>>, <<B100>>, <<B110>>, <<B120>> }

\* frame_time of a call under Spec, relative to the previous call's (ms):
\* out of order, repeated, the next frame at 25 fps, the time gate, the grace
\* period, and 4 ms, after which the floats of the times no longer differ by
\* what the times differ by (4.004 - 1.004 is 2.9999999999999996)
Steps == {-40, 0, 4, 40, 1000, 3000}

\* fps of the clip under SpecClip, cap.get(cv2.CAP_PROP_FPS): frames 125 ms
\* apart, so that frame_count / fps is the float of the milliseconds kept here
FPS == 8

\* boxes of the clip: at 8 fps a step of 20, 30, 40 or 50 px is a valid sample
\* (47 to 118 km/h), 60 px is above the alert speed (141 km/h), 0 px and 90 px
\* are outside the band (0 and 212 km/h)
C100 == Box(100, 100, 90, 2)
C140 == Box(140, 100, 80, 2)
C160 == Box(160, 100, 70, 2)
C300 == Box(300, 100, 90, 7)

\* the detection lists of one frame under SpecClip
ClipLists ==
    { <<>>, <<C100>>, <<C140>>, <<C160>>, <<Box(190, 100, 80, 2)>>, <<C100, C300>>,
      <<C140, Box(320, 100, 70, 7)>> }

\* boxes of the clip that is processed twice.  R152 is the root of 2993 px from
\* C100 and from R180, by the offsets (52, 17) and (-28, -47), whose hypot is
\* one float in one C library and two floats in another; C100 and R180 are
\* more than 100 px apart, C300 and R360 are 60 px apart and far from the others
R180 == Box(180, 164, 80, 2)
R152 == Box(152, 117, 70, 2)
R360 == Box(360, 100, 80, 7)

\* the detection lists of one frame under SpecRerun
RerunLists == { <<>>, <<C100, R180>>, <<R152>>, <<C300>>, <<R360>> }

\* boxes under SpecBand, 49 and 50 px apart: 49 px in 72 ms is 200 km/h,
\* 50 px in 40 ms is 367.3 km/h
D100 == Box(100, 100, 90, 2)
D149 == Box(149, 100, 80, 2)
D150 == Box(150, 100, 70, 2)

\* the detection lists of one call under SpecBand
BandLists == { <<>>, <<D100>>, <<D149>>, <<D150>>, <<D100, D150>> }

\* frame_time of a call under SpecBand (ms), in any order: from 0 to 72 ms and
\* from 72 to 144 ms the elapsed time is the float 0.072 and the sample of 49 px
\* is 200.0; from 40 to 112 ms it is 0.07200000000000001 and the sample is
\* 199.99999999999997
BandTimes == {0, 40, 72, 112, 144}

\* boxes under SpecDir.  From E0 the boxes E1, W1, S1, N1 are 75 px away, mostly
\* along x (E1, W1) or along y (S1, N1); E2, W2 are 51 px further along y, so
\* that E0 -> E1 -> E2 ends with |dx| = |dy| = 72.  Boxes that can be matched
\* to one track in turn are a whole number of pixels apart (75, 51 or 93 px);
\* the others are more than 100 px apart.
E0 == Box(100, 100, 90, 2)
E1 == Box(172, 79, 80, 2)
E2 == Box(172, 28, 70, 2)
W1 == Box(28, 121, 80, 2)
W2 == Box(28, 172, 70, 2)
S1 == Box(121, 172, 80, 7)
N1 == Box(79, 28, 80, 7)

\* the detection lists of one call under SpecDir
DirLists ==
    { <<>>, <<E0>>, <<E1>>, <<E2>>, <<W1>>, <<W2>>, <<S1>>, <<N1>>, <<E1, W1>> }

\* a contour of the mask as the loop reads it: cv2.boundingRect is the w x h
\* rectangle whose centroid (line 72) is (cx, cy), cv2.contourArea is area,
\* which is at most (w - 1) * (h - 1), the area between the corner points of
\* a filled rectangle
Contour(cx, cy, w, h, area) ==
    [x |-> cx - w \div 2, y |-> cy - h \div 2, w |-> w, h |-> h, area |-> area]

\* contours under SpecBlob.  A vehicle spans 41 x 21 pixels with an area of
\* 780: a step of 5 px is 45 km/h, 15 px is 135 km/h, 20 px is 180 km/h; 45 px
\* is within the matching threshold, 50 px or more is not
K100 == Contour(100, 100, 41, 21, 780)

\* the contours of one frame under SpecBlob; an area of 500 is kept, a
\* contour of 21 x 11 pixels has an area below 200 and is noise
ContourLists ==
    { <<>>, <<K100>>, <<Contour(105, 100, 41, 21, 780)>>,
      <<Contour(120, 100, 41, 21, 780)>>, <<Contour(145, 100, 41, 21, 780)>>,
      <<K100, Contour(200, 100, 41, 21, 780)>>,
      <<Contour(120, 100, 31, 21, 500)>>, <<Contour(120, 100, 21, 11, 180), K100>> }

(***************************************************************************)
(* State.                                                                  *)
(***************************************************************************)
VARIABLES
    tracked_vehicles,   \* self.tracked_vehicles, in dict order
    next_id,            \* self.next_id
    returned,           \* the list the last update call returned
    vehicles,           \* results["vehicles"]: the records extended call by call
    unique,             \* results["vehicles"] after the aggregation
    pc,                 \* "run" while frames are processed, "done" after the clip
    alerts,             \* history: the speed alerts logged so far
    calls,              \* history: the (frame_time, detections) of every call
    assignments,        \* history: per call, the track each detection went to
    created,            \* history: the ids of new tracks in creation order
    pre,                \* history: tracked_vehicles and next_id before the last call
    run,                \* 1 for the first processing of the clip, 2 for the second
    first,              \* history: what the first processing took in and produced
    stats,              \* what generate_stats returned for the clip
    blob_vehicles,      \* blob variant: vehicles, in dict order
    vehicle_id_counter, \* blob variant: vehicle_id_counter
    speed_violations_count, \* blob variant: speed_violations_count
    high_speed_alerts,  \* blob variant: high_speed_alerts, one entry per message
    frame_idx,          \* blob variant: frame_idx
    blob_frames,        \* blob variant, history: the contours of every frame read
    blob_pc             \* blob variant: "run" in the frame loop, "done" after it

\* the offsets between the centroids of the boxes in lists that are inside the
\* distance gate and not a whole number of pixels long: the ones np.hypot is
\* called on in lines 68-78 with a result that depends on the C library
Inexact(lists) ==
    LET centroids == UNION {{Centroid(l[i]) : i \in 1..Len(l)} : l \in lists}
        keys == {HypotKey(c[1] - d[1], c[2] - d[2]) : c \in centroids, d \in centroids}
    IN  {k \in keys : /\ Dist2(k[1], k[2]) < DISTANCE_GATE * DISTANCE_GATE
                      /\ ISqrtFrom(Dist2(k[1], k[2]), Dist2(k[1], k[2])) ^ 2
                             # Dist2(k[1], k[2])}

\* the state of the blob-triggered variant of process_video_clip
blobVars == <<blob_vehicles, vehicle_id_counter, speed_violations_count,
              high_speed_alerts, frame_idx, blob_frames, blob_pc>>

\* the state of the HTTP-triggered variant: the clip and its tracker
httpVars == <<tracked_vehicles, next_id, returned, vehicles, unique, pc, alerts,
              calls, assignments, created, pre, run, first>>

\* the state outside the clip and its tracker
aside == <<stats, blobVars, libm, PIXELS_PER_METER>>

vars == <<httpVars, stats, blobVars, libm, PIXELS_PER_METER>>

\* the module after import, lines 22-30, with PIXELS_DASHED_LINE one of the
\* pixel counts in dashed, VehicleTracker.__init__ and the empty results of
\* process_video_clip, in a build with any C library, for the clips whose frames
\* are taken from lists
InitAt(lists, dashed) ==
    /\ tracked_vehicles = <<>>
    /\ next_id = 1
    /\ returned = <<>>
    /\ vehicles = <<>>
    /\ unique = <<>>
    /\ pc = "run"
    /\ alerts = <<>>
    /\ calls = <<>>
    /\ assignments = <<>>
    /\ created = <<>>
    /\ pre = [tracked_vehicles |-> <<>>, next_id |-> 1]
    /\ run = 1
    /\ first = <<>>
    /\ stats = <<>>
    /\ blob_vehicles = <<>>
    /\ vehicle_id_counter = 0
    /\ speed_violations_count = 0
    /\ high_speed_alerts = <<>>
    /\ frame_idx = 0
    /\ blob_frames = <<>>
    /\ blob_pc = "run"
    /\ libm \in SUBSET Inexact(lists)
    /\ PIXELS_PER_METER
          \in {FDiv(FromInt(pixels), FromInt(DASHED_LINE_DISTANCE)) : pixels \in dashed}

\* the module as it is shipped: 245 px between the dashed lines, 12.25 px per metre
InitOf(lists) == InitAt(lists, {PIXELS_DASHED_LINE})

Init == InitOf(DetLists)

\* the ids of the tracks a call created, in order
RECURSIVE NewIds(_)
NewIds(assign) ==
    IF assign = <<>> THEN <<>>
    ELSE (IF Head(assign).new THEN <<Head(assign).id>> ELSE <<>>) \o NewIds(Tail(assign))

\* frame_time of the last call, 0 before the first
LastTime == IF calls = <<>> THEN 0 ELSE calls[Len(calls)].frame_time

\* one call tracker.update(detections, frame_time, height) and the extend of
\* results["vehicles"], lines 216-217
Call(detections, frame_time) ==
    \E r \in {UpdateOf(tracked_vehicles, next_id, detections, frame_time)} :
        /\ tracked_vehicles' = r.tracked_vehicles
        /\ next_id' = r.next_id
        /\ returned' = r.results
        /\ vehicles' = vehicles \o r.results
        /\ alerts' = alerts \o r.alerts
        /\ calls' = Append(calls, [frame_time |-> frame_time, detections |-> detections])
        /\ assignments' = Append(assignments, r.assign)
        /\ created' = created \o NewIds(r.assign)
        /\ pre' = [tracked_vehicles |-> tracked_vehicles, next_id |-> next_id]

\* VehicleTracker.update called directly, at any frame_time
Update ==
    /\ pc = "run"
    /\ Len(calls) < MaxCalls
    /\ \E step \in Steps, detections \in DetLists :
          Call(detections, LastTime + step)
    /\ UNCHANGED <<unique, pc, run, first>>
    /\ UNCHANGED aside

\* VehicleTracker.update called directly at the frame times 0.00, 0.04, 0.08 s
UpdateScenario ==
    /\ pc = "run"
    /\ Len(calls) < MaxScenarioCalls
    /\ \E detections \in ScenarioLists :
          Call(detections, 40 * Len(calls))
    /\ UNCHANGED <<unique, pc, run, first>>
    /\ UNCHANGED aside

\* VehicleTracker.update called directly, at frame times around the band's bounds
UpdateBand ==
    /\ pc = "run"
    /\ Len(calls) < MaxBandCalls
    /\ \E frame_time \in BandTimes, detections \in BandLists :
          Call(detections, frame_time)
    /\ UNCHANGED <<unique, pc, run, first>>
    /\ UNCHANGED aside

\* VehicleTracker.update called at the frame times of a clip, with detections
\* that move along both axes
UpdateDir ==
    /\ pc = "run"
    /\ Len(calls) < MaxDirCalls
    /\ \E detections \in DirLists :
          Call(detections, ((Len(calls) + 1) * 1000) \div FPS)
    /\ UNCHANGED <<unique, pc, run, first>>
    /\ UNCHANGED aside

\* one iteration of the frame loop of process_video_clip, lines 185-217:
\* frame_count += 1; current_time = frame_count / fps
ProcessFrame ==
    /\ pc = "run"
    /\ Len(calls) < MaxFrames
    /\ \E detections \in ClipLists :
          Call(detections, ((Len(calls) + 1) * 1000) \div FPS)
    /\ UNCHANGED <<unique, pc, run, first>>
    /\ UNCHANGED aside

\* the end of the clip, lines 223-235
Finalize ==
    /\ pc = "run"
    /\ pc' = "done"
    /\ unique' = Aggregate(<<>>, vehicles)
    /\ UNCHANGED <<tracked_vehicles, next_id, returned, vehicles, alerts, calls,
                   assignments, created, pre, run, first>>
    /\ UNCHANGED aside

\* the handler after process_video_clip, __init__.py lines 71-78: a clip without
\* vehicles is skipped, generate_stats runs on the results of the others
GenerateStats ==
    /\ pc = "done"
    /\ unique # <<>>
    /\ stats = <<>>
    /\ stats' = StatsOf(unique)
    /\ UNCHANGED <<httpVars, blobVars, libm, PIXELS_PER_METER>>

(***************************************************************************)
(* The same clip processed a second time: process_video_clip is called     *)
(* again, builds a new VehicleTracker and reads the same frames.           *)
(***************************************************************************)
\* a frame of the first processing
FirstFrame ==
    /\ run = 1
    /\ pc = "run"
    /\ Len(calls) < MaxRerunFrames
    /\ \E detections \in RerunLists :
          Call(detections, ((Len(calls) + 1) * 1000) \div FPS)
    /\ UNCHANGED <<unique, pc, run, first>>
    /\ UNCHANGED aside

\* the end of either processing; the second ends after the frames of the first
EndOfClip ==
    /\ run = 2 => Len(calls) = Len(first.calls)
    /\ Finalize

\* the second call of process_video_clip, lines 170-181: tracker = VehicleTracker()
\* (__init__, lines 34-40) and an empty results["vehicles"]
Rerun ==
    /\ run = 1
    /\ pc = "done"
    /\ first' = [calls |-> calls, assignments |-> assignments, vehicles |-> vehicles,
                 alerts |-> alerts, unique |-> unique,
                 tracked_vehicles |-> tracked_vehicles]
    /\ run' = 2
    /\ pc' = "run"
    /\ tracked_vehicles' = <<>>
    /\ next_id' = 1
    /\ returned' = <<>>
    /\ vehicles' = <<>>
    /\ unique' = <<>>
    /\ alerts' = <<>>
    /\ calls' = <<>>
    /\ assignments' = <<>>
    /\ created' = <<>>
    /\ pre' = [tracked_vehicles |-> <<>>, next_id |-> 1]
    /\ UNCHANGED aside

\* a frame of the second processing: the frame the first one read at this count
SecondFrame ==
    /\ run = 2
    /\ pc = "run"
    /\ Len(calls) < Len(first.calls)
    /\ \E detections \in {first.calls[Len(calls) + 1].detections} :
          Call(detections, ((Len(calls) + 1) * 1000) \div FPS)
    /\ UNCHANGED <<unique, pc, run, first>>
    /\ UNCHANGED aside

(***************************************************************************)
(* The blob-triggered variant of process_video_clip.                       *)
(***************************************************************************)
\* one iteration of the frame loop, lines 46-121
BlobFrame ==
    /\ blob_pc = "run"
    /\ frame_idx < MaxBlobFrames
    /\ \E contours \in ContourLists :
          \E r \in {BlobFrameOf([vehicles |-> blob_vehicles,
                                 vehicle_id_counter |-> vehicle_id_counter,
                                 speed_violations_count |-> speed_violations_count,
                                 high_speed_alerts |-> high_speed_alerts], contours)} :
              /\ blob_vehicles' = r.vehicles
              /\ vehicle_id_counter' = r.vehicle_id_counter
              /\ speed_violations_count' = r.speed_violations_count
              /\ high_speed_alerts' = r.high_speed_alerts
              /\ blob_frames' = Append(blob_frames, contours)
    /\ frame_idx' = frame_idx + 1
    /\ UNCHANGED <<blob_pc, httpVars, stats, libm, PIXELS_PER_METER>>

\* the end of the clip, lines 48-49 and 123
BlobEnd ==
    /\ blob_pc = "run"
    /\ blob_pc' = "done"
    /\ UNCHANGED <<blob_vehicles, vehicle_id_counter, speed_violations_count,
                   high_speed_alerts, frame_idx, blob_frames, httpVars, stats, libm,
                   PIXELS_PER_METER>>

\* one clip through the blob variant, which does not call np.hypot
NextBlob == BlobFrame \/ BlobEnd
SpecBlob == InitOf({}) /\ [][NextBlob]_vars

\* the tracker driven call by call
Next == Update
Spec == Init /\ [][Next]_vars

\* the tracker driven frame by frame at 25 fps from 0 s on, in a deployment
\* calibrated as shipped or at 100 px between the dashed lines (5 px per metre)
NextScenario == UpdateScenario
SpecScenario ==
    InitAt(ScenarioLists, {PIXELS_DASHED_LINE, 5 * DASHED_LINE_DISTANCE})
        /\ [][NextScenario]_vars

\* the tracker driven call by call at the bounds of the plausibility band
NextBand == UpdateBand
SpecBand == InitOf(BandLists) /\ [][NextBand]_vars

\* the tracker driven call by call with tracks that move along both axes
NextDir == UpdateDir
SpecDir == InitOf(DirLists) /\ [][NextDir]_vars

\* one clip through process_video_clip and generate_stats
NextClip == ProcessFrame \/ Finalize \/ GenerateStats
SpecClip == InitOf(ClipLists) /\ [][NextClip]_vars

\* one clip through process_video_clip twice
NextRerun == FirstFrame \/ EndOfClip \/ Rerun \/ SecondFrame
SpecRerun == InitOf(RerunLists) /\ [][NextRerun]_vars

(***************************************************************************)
(* Vocabulary of the properties.                                           *)
(***************************************************************************)
TrackIds(tv) == {tv[i].id : i \in 1..Len(tv)}

\* the track of tv whose id is id
TrackOf(tv, id) == tv[CHOOSE i \in 1..Len(tv) : tv[i].id = id]

\* the last call: which track each detection went to, and the centroids
LastAssign == IF assignments = <<>> THEN <<>> ELSE assignments[Len(assignments)]
LastDetections == IF calls = <<>> THEN <<>> ELSE calls[Len(calls)].detections
LastCentroid(j) == Centroid(LastDetections[j])

\* the ids that detections before the j-th took in the last call
TakenBefore(j) == {LastAssign[i].id : i \in 1..(j - 1)}

\* the ids created before the last call
CreatedBefore ==
    {created[i] : i \in 1..(Len(created) - Len(NewIds(LastAssign)))}

\* the tracks that were dropped before the last call
GoneBefore == CreatedBefore \ TrackIds(pre.tracked_vehicles)

\* the tracks of the last call's pre-state that are stale at the call's time:
\* the call's frame time less the time of their last position, the difference
\* of the two floats as the tracker takes it, is not below the grace period
Stale ==
    {pre.tracked_vehicles[i].id : i \in
        {k \in 1..Len(pre.tracked_vehicles) :
            ~ElapsedBelow(LastTime, pre.tracked_vehicles[k].last_position[3],
                          GRACE_PERIOD)}}

Above(speed, kmh) == FLess(FromInt(kmh), speed)

(***************************************************************************)
(* C1.  The ids of new tracks are strictly increasing in creation order,   *)
(* no id is given twice, also not after its track was dropped, and next_id *)
(* never decreases.                                                        *)
(***************************************************************************)
C1_IdsNeverReused ==
    /\ \A i, j \in 1..Len(created) : i < j => created[i] < created[j]
    /\ \A i \in 1..Len(created) : created[i] < next_id
    /\ pre.next_id <= next_id
    /\ \A i, j \in 1..Len(tracked_vehicles) :
          i # j => tracked_vehicles[i].id # tracked_vehicles[j].id
    /\ \A id \in TrackIds(tracked_vehicles) : \E i \in 1..Len(created) : created[i] = id

\* a track was dropped, and the last call created a track after that
C1_Witness ==
    /\ GoneBefore # {}
    /\ \E j \in 1..Len(LastAssign) : LastAssign[j].new

(***************************************************************************)
(* C2.  Over the life of a track at most one speed alert is logged for it: *)
(* the alert comes the first time the smoothed speed exceeds 130 km/h and  *)
(* sets alerted; later calls log none, whatever the speed.                 *)
(***************************************************************************)
C2_OneAlertPerTrack ==
    /\ \A i, j \in 1..Len(alerts) : i # j => alerts[i].id # alerts[j].id
    /\ \A i \in 1..Len(alerts) : Above(alerts[i].speed, ALERT_SPEED)
    /\ \A k \in 1..Len(tracked_vehicles) :
          LET v == tracked_vehicles[k]
          IN  /\ v.alerted <=> \E i \in 1..Len(alerts) : alerts[i].id = v.id
              /\ (v.speed # NoSpeed /\ Above(v.speed, ALERT_SPEED)) => v.alerted

\* a track whose three samples after its first position are all above 130 km/h:
\* it was above the threshold in three calls, and one alert is logged
C2_Witness ==
    \E k \in 1..Len(tracked_vehicles) :
        LET v == tracked_vehicles[k]
        IN  /\ Len(v.positions) = 4
            /\ Len(v.speed_history) = 3
            /\ \A i \in 1..3 : Above(v.speed_history[i], ALERT_SPEED)
            /\ Cardinality({i \in 1..Len(alerts) : alerts[i].id = v.id}) = 1

(***************************************************************************)
(* C3.  Every track has at most SPEED_SMOOTHING_WINDOW samples in          *)
(* speed_history, and a valid sample that arrives with the window full     *)
(* evicts the oldest one.                                                  *)
(***************************************************************************)
C3_WindowBounded ==
    /\ \A k \in 1..Len(tracked_vehicles) :
          Len(tracked_vehicles[k].speed_history) <= SPEED_SMOOTHING_WINDOW
    /\ \A j \in 1..Len(LastAssign) :
          ~LastAssign[j].new =>
             LET u == TrackOf(pre.tracked_vehicles, LastAssign[j].id)
                 v == TrackOf(tracked_vehicles, LastAssign[j].id)
                 c == LastCentroid(j)
             IN  SampleValid(u, c[1], c[2], LastTime) =>
                    v.speed_history =
                       Append(IF Len(u.speed_history) = SPEED_SMOOTHING_WINDOW
                              THEN Tail(u.speed_history) ELSE u.speed_history,
                              SampleOf(u, c[1], c[2], LastTime))

\* a valid sample arrived at a full window whose oldest sample differs from it
C3_Witness ==
    \E j \in 1..Len(LastAssign) :
        /\ ~LastAssign[j].new
        /\ LET u == TrackOf(pre.tracked_vehicles, LastAssign[j].id)
               c == LastCentroid(j)
           IN  /\ Len(u.speed_history) = SPEED_SMOOTHING_WINDOW
               /\ SampleValid(u, c[1], c[2], LastTime)
               /\ u.speed_history[1] # SampleOf(u, c[1], c[2], LastTime)
               /\ u.speed_history[1] # u.speed_history[2]

FarFromAll(j) ==
    \A k \in 1..Len(pre.tracked_vehicles) :
        LET u == pre.tracked_vehicles[k]
        IN  u.id \notin TakenBefore(j) =>
               Dist2(LastCentroid(j)[1] - u.last_position[1],
                     LastCentroid(j)[2] - u.last_position[2])
                  > DISTANCE_GATE * DISTANCE_GATE

C5_FarDetectionNewTrack ==
    \A j \in 1..Len(LastAssign) :
        FarFromAll(j) =>
            /\ LastAssign[j].new
            /\ LastAssign[j].id >= pre.next_id
            /\ LastAssign[j].id \notin TrackIds(pre.tracked_vehicles)
            /\ TrackOf(tracked_vehicles, LastAssign[j].id).positions
                  = << <<LastCentroid(j)[1], LastCentroid(j)[2], LastTime>> >>

\* a single detection 200 px from the only track, which was seen one frame
\* (40 ms) before: only the distance gate keeps them apart
C5_Witness ==
    /\ Len(LastAssign) = 1
    /\ Len(pre.tracked_vehicles) = 1
    /\ FarFromAll(1)
    /\ LastTime - pre.tracked_vehicles[1].last_position[3] = 40
    /\ Dist2(LastCentroid(1)[1] - pre.tracked_vehicles[1].last_position[1],
             LastCentroid(1)[2] - pre.tracked_vehicles[1].last_position[2]) = 200 * 200
    /\ LastAssign[1].new

(***************************************************************************)
(* C6.  After the end-of-clip aggregation there is exactly one record per  *)
(* vehicle id of the per-frame results, and it has the maximum speed seen  *)
(* for the id.  As claimed: among records of one id with that maximum      *)
(* speed the one with the later timestamp is kept.  As the code does it:   *)
(* the earliest such record is kept.                                       *)
(***************************************************************************)
SameSpeed(r, u) == FCmp(r.speed, u.speed) = 0

OnePerId ==
    /\ \A i, j \in 1..Len(unique) : i # j => unique[i].id # unique[j].id
    /\ {unique[i].id : i \in 1..Len(unique)} = {vehicles[k].id : k \in 1..Len(vehicles)}
    /\ \A i \in 1..Len(unique) : \E k \in 1..Len(vehicles) : vehicles[k] = unique[i]

KeepsMax ==
    \A i \in 1..Len(unique), k \in 1..Len(vehicles) :
        vehicles[k].id = unique[i].id => ~FLess(unique[i].speed, vehicles[k].speed)

\* the original statement: ties go to the later timestamp
C6_TiesKeepLater ==
    pc = "done" =>
        /\ OnePerId
        /\ KeepsMax
        /\ \A i \in 1..Len(unique), k \in 1..Len(vehicles) :
              (vehicles[k].id = unique[i].id /\ SameSpeed(vehicles[k], unique[i]))
                 => vehicles[k].timestamp <= unique[i].timestamp

\* the amended statement: ties go to the earliest record
C6_TiesKeepEarliest ==
    pc = "done" =>
        /\ OnePerId
        /\ KeepsMax
        /\ \A i \in 1..Len(unique), k \in 1..Len(vehicles) :
              (vehicles[k].id = unique[i].id /\ SameSpeed(vehicles[k], unique[i]))
                 => unique[i].timestamp <= vehicles[k].timestamp

\* the aggregation ran over two records of one id that share its maximum speed
C6_Witness ==
    /\ pc = "done"
    /\ \E k, m \in 1..Len(vehicles) :
          /\ k < m
          /\ vehicles[k].id = vehicles[m].id
          /\ vehicles[k].timestamp < vehicles[m].timestamp
          /\ SameSpeed(vehicles[k], vehicles[m])
          /\ \A n \in 1..Len(vehicles) :
                vehicles[n].id = vehicles[k].id => ~FLess(vehicles[k].speed, vehicles[n].speed)

(***************************************************************************)
(* C7.  When several eligible unmatched tracks are at the same minimum     *)
(* distance from a detection, the detection goes to the one with the       *)
(* smallest id, whatever the order of the tracks in tracked_vehicles.      *)
(***************************************************************************)
Eligible(u, j) ==
    /\ u.id \notin TakenBefore(j)
    /\ InGate(u, LastCentroid(j)[1], LastCentroid(j)[2], LastTime)

DistTo(u, j) ==
    Dist2(LastCentroid(j)[1] - u.last_position[1], LastCentroid(j)[2] - u.last_position[2])

C7_TiesToSmallestId ==
    \A j \in 1..Len(LastAssign) :
        ~LastAssign[j].new =>
            \A k \in 1..Len(pre.tracked_vehicles) :
                LET u == pre.tracked_vehicles[k]
                    a == TrackOf(pre.tracked_vehicles, LastAssign[j].id)
                IN  (Eligible(u, j) /\ DistTo(u, j) = DistTo(a, j)) => a.id <= u.id

(***************************************************************************)
(* C8.  In one call every detection is associated with exactly one track,  *)
(* an extended one or a new one, and every track gets at most one          *)
(* detection, so positions grows by at most one entry; a detection whose   *)
(* nearest track is already claimed goes to the nearest eligible track     *)
(* that is left, or starts a new track when none is.                       *)
(***************************************************************************)
C8_OneDetectionPerTrack ==
    /\ Len(LastAssign) = Len(LastDetections)
    /\ \A i, j \in 1..Len(LastAssign) : i # j => LastAssign[i].id # LastAssign[j].id
    /\ \A j \in 1..Len(LastAssign) :
          /\ LastAssign[j].id \in TrackIds(tracked_vehicles)
          /\ LastAssign[j].new <=> LastAssign[j].id \notin TrackIds(pre.tracked_vehicles)
          /\ LastAssign[j].new <=>
                ~\E k \in 1..Len(pre.tracked_vehicles) : Eligible(pre.tracked_vehicles[k], j)
          /\ ~LastAssign[j].new =>
                LET a == TrackOf(pre.tracked_vehicles, LastAssign[j].id)
                IN  /\ Eligible(a, j)
                    /\ \A k \in 1..Len(pre.tracked_vehicles) :
                          Eligible(pre.tracked_vehicles[k], j)
                             => DistTo(a, j) <= DistTo(pre.tracked_vehicles[k], j)
    /\ \A k \in 1..Len(pre.tracked_vehicles) :
          LET u == pre.tracked_vehicles[k]
          IN  u.id \in TrackIds(tracked_vehicles) =>
                 LET v == TrackOf(tracked_vehicles, u.id)
                 IN  Len(v.positions) =
                        Len(u.positions)
                           + Cardinality({j \in 1..Len(LastAssign) : LastAssign[j].id = u.id})

\* a detection whose nearest track was claimed by an earlier detection of the
\* call went to a farther track
C8_Witness ==
    \E j \in 2..Len(LastAssign) :
        /\ ~LastAssign[j].new
        /\ \E k \in 1..Len(pre.tracked_vehicles) :
              LET u == pre.tracked_vehicles[k]
                  a == TrackOf(pre.tracked_vehicles, LastAssign[j].id)
              IN  /\ u.id \in TakenBefore(j)
                  /\ InGate(u, LastCentroid(j)[1], LastCentroid(j)[2], LastTime)
                  /\ DistTo(u, j) < DistTo(a, j)

\* s is the beginning of t
IsPrefix(s, t) == Len(s) <= Len(t) /\ \A i \in 1..Len(s) : s[i] = t[i]

(***************************************************************************)
(* C10.  One vehicle seen at (100,100), (110,100), (120,100) at 0, 40 and  *)
(* 80 ms, at 5 px per metre, gives two valid samples and one result        *)
(* record, with the direction label of a positive x displacement.  As      *)
(* claimed, the samples and the smoothed speed are 36 km/h; by lines 81-82 *)
(* they are (10 / 5) / 0.04 * 3.6 = 180 km/h.                              *)
(***************************************************************************)
\* pixels_per_meter = 5
AtFivePerMeter == PIXELS_PER_METER = FromInt(5)

Scenario ==
    calls = << [frame_time |-> 0, detections |-> <<B100>>],
               [frame_time |-> 40, detections |-> <<B110>>],
               [frame_time |-> 80, detections |-> <<B120>>] >>

ScenarioYields(kmh) ==
    /\ Len(tracked_vehicles) = 1
    /\ tracked_vehicles[1].positions = << <<100, 100, 0>>, <<110, 100, 40>>, <<120, 100, 80>> >>
    /\ tracked_vehicles[1].speed_history = <<kmh, kmh>>
    /\ tracked_vehicles[1].speed = kmh
    /\ Len(vehicles) = 1
    /\ vehicles[1].id = 1
    /\ vehicles[1].speed = kmh
    /\ vehicles[1].timestamp = 80
    /\ vehicles[1].direction = Direction(<< <<0, 0, 0>>, <<1, 0, 0>> >>)
    /\ vehicles[1].direction = "outbound"

\* the original statement
C10_Scenario36 == (Scenario /\ AtFivePerMeter) => ScenarioYields(FromInt(36))

\* the amended statement
C10_Scenario180 == (Scenario /\ AtFivePerMeter) => ScenarioYields(FromInt(180))

\* the scenario ran at 5 px per metre and returned its record
C10_Witness == Scenario /\ AtFivePerMeter /\ returned # <<>>

\* the scenario ran as shipped, at 245 px per 20 m, and returned its record
\* with the float of 3600/49 km/h, 73.46938775510205
C10_WitnessShipped ==
    /\ Scenario
    /\ ~AtFivePerMeter
    /\ ScenarioYields(FromRatio(3600, 49))

(***************************************************************************)
(* C11.  A raw speed sample is appended to speed_history exactly when it   *)
(* lies in the plausibility band.  As claimed the band is closed, 5 and    *)
(* 200 km/h included; as the code does it the band is open, a sample of    *)
(* exactly 5 or 200 km/h is not recorded.  Samples outside, such as the    *)
(* 367.3 km/h of 50 px in 40 ms, are not recorded.                         *)
(***************************************************************************)
\* the raw sample of the j-th detection of the last call against the track u
RawSample(u, j) == SampleOf(u, LastCentroid(j)[1], LastCentroid(j)[2], LastTime)

\* t_elapsed of the last call against the track u is positive, is negative
TimePassed(u) == TimeElapsed(u, LastTime)
TimeLost(u) == u.positions[Len(u.positions)][3] > LastTime

\* the window h after the sample s was appended to it
Appended(h, s) ==
    Append(IF Len(h) = SPEED_SMOOTHING_WINDOW THEN Tail(h) ELSE h, s)

\* every sample of the last call with positive elapsed time is appended when
\* inBand holds of it and leaves the history as it was otherwise
RecordedWhen(inBand(_)) ==
    \A j \in 1..Len(LastAssign) :
        (~LastAssign[j].new
           /\ TimePassed(TrackOf(pre.tracked_vehicles, LastAssign[j].id))) =>
            LET u == TrackOf(pre.tracked_vehicles, LastAssign[j].id)
                v == TrackOf(tracked_vehicles, LastAssign[j].id)
            IN  IF inBand(RawSample(u, j))
                THEN v.speed_history = Appended(u.speed_history, RawSample(u, j))
                ELSE v.speed_history = u.speed_history

InClosedBand(s) ==
    /\ FCmp(FromInt(MIN_SPEED_THRESHOLD), s) <= 0
    /\ FCmp(s, FromInt(MAX_SPEED_THRESHOLD)) <= 0

InOpenBand(s) ==
    /\ FCmp(FromInt(MIN_SPEED_THRESHOLD), s) < 0
    /\ FCmp(s, FromInt(MAX_SPEED_THRESHOLD)) < 0

\* the original statement: the band is closed
C11_ClosedBand == RecordedWhen(InClosedBand)

\* the amended statement: the band is open
C11_OpenBand == RecordedWhen(InOpenBand)

\* a sample of exactly 200 km/h arrived and was not recorded
C11_Witness ==
    \E j \in 1..Len(LastAssign) :
        /\ ~LastAssign[j].new
        /\ LET u == TrackOf(pre.tracked_vehicles, LastAssign[j].id)
               v == TrackOf(tracked_vehicles, LastAssign[j].id)
           IN  /\ TimePassed(u)
               /\ FCmp(RawSample(u, j), FromInt(MAX_SPEED_THRESHOLD)) = 0
               /\ v.speed_history = u.speed_history
               /\ Len(v.positions) = Len(u.positions) + 1

\* 49 px in 72 ms, from 40 to 112 ms: the elapsed time is the float above
\* 0.072, the sample is the float below 200, and it was recorded
C11_WitnessBelowBound ==
    \E j \in 1..Len(LastAssign) :
        /\ ~LastAssign[j].new
        /\ LET u == TrackOf(pre.tracked_vehicles, LastAssign[j].id)
               v == TrackOf(tracked_vehicles, LastAssign[j].id)
           IN  /\ LastTime - u.positions[Len(u.positions)][3] = 72
               /\ LastCentroid(j)[1] - u.positions[Len(u.positions)][1] = 49
               /\ LastCentroid(j)[2] - u.positions[Len(u.positions)][2] = 0
               /\ FLess(RawSample(u, j), FromInt(MAX_SPEED_THRESHOLD))
               /\ v.speed_history = Appended(u.speed_history, RawSample(u, j))

(***************************************************************************)
(* C12.  When the sample of a matched track is skipped, because the        *)
(* elapsed time is zero or negative or because the sample is not inside    *)
(* the band, the track keeps its speed_history, speed and alerted, and     *)
(* stays tracked with the new position appended and last_position set.     *)
(***************************************************************************)
Skipped(u, j) == ~TimePassed(u) \/ ~InOpenBand(RawSample(u, j))

Here(j) == <<LastCentroid(j)[1], LastCentroid(j)[2], LastTime>>

C12_SkippedSampleKeepsSpeed ==
    \A j \in 1..Len(LastAssign) :
        (~LastAssign[j].new
           /\ Skipped(TrackOf(pre.tracked_vehicles, LastAssign[j].id), j)) =>
            /\ LastAssign[j].id \in TrackIds(tracked_vehicles)
            /\ LET u == TrackOf(pre.tracked_vehicles, LastAssign[j].id)
                   v == TrackOf(tracked_vehicles, LastAssign[j].id)
               IN  /\ v.speed_history = u.speed_history
                   /\ v.speed = u.speed
                   /\ v.alerted = u.alerted
                   /\ v.positions = Append(u.positions, Here(j))
                   /\ v.last_position = Here(j)

\* a track that has a speed was matched and its sample was outside the band
C12_Witness ==
    \E j \in 1..Len(LastAssign) :
        /\ ~LastAssign[j].new
        /\ LET u == TrackOf(pre.tracked_vehicles, LastAssign[j].id)
           IN  /\ u.speed # NoSpeed
               /\ TimePassed(u)
               /\ FLess(FromInt(MAX_SPEED_THRESHOLD), RawSample(u, j))

\* a track that has a speed was matched with no time elapsed, or less
C12_WitnessNoTime ==
    \E j \in 1..Len(LastAssign) :
        /\ ~LastAssign[j].new
        /\ LET u == TrackOf(pre.tracked_vehicles, LastAssign[j].id)
           IN  u.speed # NoSpeed /\ TimeLost(u)

(***************************************************************************)
(* C13.  update returns one record for exactly the tracks that were        *)
(* matched in the call, have a speed and have at least 3 positions (the    *)
(* new one counted); tracks created in the call, unmatched tracks and      *)
(* tracks without a speed give no record.                                  *)
(***************************************************************************)
\* the j-th detection of the last call extended a track that is to be reported
Reported(j) ==
    /\ ~LastAssign[j].new
    /\ TrackOf(tracked_vehicles, LastAssign[j].id).speed # NoSpeed
    /\ Len(TrackOf(tracked_vehicles, LastAssign[j].id).positions) >= MIN_POSITIONS

C13_RecordsOfMatchedTracks ==
    /\ \A i \in 1..Len(returned) :
          \E j \in 1..Len(LastAssign) :
              /\ LastAssign[j].id = returned[i].id
              /\ Reported(j)
              /\ returned[i].speed = TrackOf(tracked_vehicles, returned[i].id).speed
              /\ returned[i].timestamp = LastTime
              /\ returned[i].position = <<LastCentroid(j)[1], LastCentroid(j)[2]>>
    /\ \A j \in 1..Len(LastAssign) :
          Reported(j) =>
              Cardinality({i \in 1..Len(returned) : returned[i].id = LastAssign[j].id}) = 1
    /\ \A i, k \in 1..Len(returned) : i # k => returned[i].id # returned[k].id

\* a call that returned a record for one matched track and none for another
\* matched track, which has a speed but only two positions
C13_Witness ==
    /\ returned # <<>>
    /\ \E j \in 1..Len(LastAssign) :
          /\ ~LastAssign[j].new
          /\ ~Reported(j)
          /\ TrackOf(tracked_vehicles, LastAssign[j].id).speed # NoSpeed

\* a matched track with three positions and no speed: no record
C13_WitnessNoSpeed ==
    \E j \in 1..Len(LastAssign) :
        /\ ~LastAssign[j].new
        /\ TrackOf(tracked_vehicles, LastAssign[j].id).speed = NoSpeed
        /\ Len(TrackOf(tracked_vehicles, LastAssign[j].id).positions) >= MIN_POSITIONS
        /\ returned = <<>>

(***************************************************************************)
(* C14.  The direction of a result record comes from the first and the     *)
(* most recent position of the track: the axis with the larger absolute    *)
(* displacement decides, the y axis when |dx| = |dy|; the record is        *)
(* inbound when the displacement on that axis is negative and outbound     *)
(* otherwise.                                                              *)
(***************************************************************************)
WholeDx(v) == v.positions[Len(v.positions)][1] - v.positions[1][1]
WholeDy(v) == v.positions[Len(v.positions)][2] - v.positions[1][2]
LastDx(v) == v.positions[Len(v.positions)][1] - v.positions[Len(v.positions) - 1][1]
LastDy(v) == v.positions[Len(v.positions)][2] - v.positions[Len(v.positions) - 1][2]

\* the label of a displacement (dx, dy)
Label(dx, dy) ==
    IF Abs(dx) > Abs(dy)
    THEN (IF dx < 0 THEN "inbound" ELSE "outbound")
    ELSE (IF dy < 0 THEN "inbound" ELSE "outbound")

C14_DirectionFromWholeHistory ==
    \A i \in 1..Len(returned) :
        LET v == TrackOf(tracked_vehicles, returned[i].id)
        IN  returned[i].direction = Label(WholeDx(v), WholeDy(v))

\* a record of a track with |dx| = |dy|, dx > 0 > dy: the y axis decides, inbound
C14_Witness ==
    \E i \in 1..Len(returned) :
        LET v == TrackOf(tracked_vehicles, returned[i].id)
        IN  /\ Abs(WholeDx(v)) = Abs(WholeDy(v))
            /\ WholeDx(v) > 0
            /\ WholeDy(v) < 0
            /\ returned[i].direction = "inbound"

\* a record whose direction differs from the label of the last two positions
C14_WitnessWholeHistory ==
    \E i \in 1..Len(returned) :
        LET v == TrackOf(tracked_vehicles, returned[i].id)
        IN  returned[i].direction # Label(LastDx(v), LastDy(v))

(***************************************************************************)
(* C16.  In the blob-triggered variant the high-speed alert is one-shot:   *)
(* over the frames of a clip at most one entry of high_speed_alerts is     *)
(* for any one vehicle id.                                                 *)
(***************************************************************************)
C16_BlobAlertOneShot ==
    \A i, j \in 1..Len(high_speed_alerts) :
        i # j => high_speed_alerts[i].id # high_speed_alerts[j].id

(***************************************************************************)
(* C17.  After any sequence of update calls a track has a speed if and     *)
(* only if its speed_history is non-empty, and then the speed is the       *)
(* arithmetic mean of the samples now in speed_history, to the precision   *)
(* of the floats: it differs from the mean by less than 2^-50 of it.       *)
(***************************************************************************)
\* a + b of two positive numbers mant * 2^exp, not rounded
ExactAdd(a, b) ==
    IF a.exp <= b.exp
    THEN [mant |-> BAdd(a.mant, BShl(b.mant, b.exp - a.exp)), exp |-> a.exp]
    ELSE [mant |-> BAdd(BShl(a.mant, a.exp - b.exp), b.mant), exp |-> b.exp]

\* the sum of the positive floats of h, not rounded
RECURSIVE ExactSum(_)
ExactSum(h) ==
    IF Len(h) = 1 THEN [mant |-> h[1].mant, exp |-> h[1].exp]
    ELSE ExactAdd(h[1], ExactSum(Tail(h)))

\* |a - b| of two natural numbers
BDist(a, b) == IF BCmp(a, b) >= 0 THEN BSub(a, b) ELSE BSub(b, a)

\* x and y, natural numbers, differ by at most 2^-50 of y
BClose(x, y) == BCmp(BShl(BDist(x, y), 50), y) <= 0

\* speed times the number of samples is their sum, both brought to the
\* exponent e
IsMeanAt(speed, h, sum, e) ==
    BClose(BShl(BMulSmall(speed.mant, Len(h)), speed.exp - e),
           BShl(sum.mant, sum.exp - e))

IsMeanOf(speed, h, sum) ==
    IsMeanAt(speed, h, sum, IF sum.exp <= speed.exp THEN sum.exp ELSE speed.exp)

IsMean(speed, h) ==
    /\ \A i \in 1..Len(h) : h[i].sign = 1
    /\ speed.sign = 1
    /\ IsMeanOf(speed, h, ExactSum(h))

C17_SpeedIsMeanOfHistory ==
    \A k \in 1..Len(tracked_vehicles) :
        LET v == tracked_vehicles[k]
        IN  /\ v.speed # NoSpeed <=> v.speed_history # <<>>
            /\ v.speed_history # <<>> => IsMean(v.speed, v.speed_history)

\* a track whose window holds different samples, beside a track without a speed
C17_Witness ==
    /\ \E k \in 1..Len(tracked_vehicles) :
          /\ Len(tracked_vehicles[k].speed_history) >= 2
          /\ tracked_vehicles[k].speed_history[1] # tracked_vehicles[k].speed_history[2]
    /\ \E k \in 1..Len(tracked_vehicles) :
          /\ tracked_vehicles[k].speed = NoSpeed
          /\ tracked_vehicles[k].speed_history = <<>>

(***************************************************************************)
(* C18.  The positions of every track are non-empty and append-only, and   *)
(* last_position is the final element of positions; when update is called  *)
(* with non-decreasing frame times the timestamps of positions are         *)
(* non-decreasing.                                                         *)
(***************************************************************************)
NonDecreasingCalls ==
    \A i \in 1..(Len(calls) - 1) : calls[i].frame_time <= calls[i + 1].frame_time

Ordered(positions) ==
    \A i \in 1..(Len(positions) - 1) : positions[i][3] <= positions[i + 1][3]

C18_PositionsAppendOnly ==
    /\ \A k \in 1..Len(tracked_vehicles) :
          LET v == tracked_vehicles[k]
          IN  /\ v.positions # <<>>
              /\ v.last_position = v.positions[Len(v.positions)]
              /\ NonDecreasingCalls => Ordered(v.positions)
    /\ \A k \in 1..Len(pre.tracked_vehicles) :
          LET u == pre.tracked_vehicles[k]
          IN  u.id \in TrackIds(tracked_vehicles) =>
                 IsPrefix(u.positions, TrackOf(tracked_vehicles, u.id).positions)

\* frame times that do not decrease, and a track with three positions, two of
\* them at the same frame time
C18_Witness ==
    /\ NonDecreasingCalls
    /\ \E k \in 1..Len(tracked_vehicles) :
          LET v == tracked_vehicles[k]
          IN  /\ Len(v.positions) = 3
              /\ v.positions[1][3] = v.positions[2][3]
              /\ v.positions[2][3] < v.positions[3][3]

\* frame times that decrease, and a track whose positions are out of order
C18_WitnessOutOfOrder ==
    \E k \in 1..Len(tracked_vehicles) : ~Ordered(tracked_vehicles[k].positions)

(***************************************************************************)
(* C19.  Every record update returns, and so every record of the clip and  *)
(* every record the aggregation keeps, has a speed strictly between 5 and  *)
(* 200 km/h; the filter of generate_stats (5 < speed < 300) therefore      *)
(* removes none of them, and total_vehicles is the number of distinct      *)
(* vehicle ids among the per-frame records.                                *)
(***************************************************************************)
AllInBand(records) == \A i \in 1..Len(records) : InOpenBand(records[i].speed)

RecordIds(records) == {records[i].id : i \in 1..Len(records)}

C19_StatsCountEveryVehicle ==
    /\ AllInBand(returned)
    /\ AllInBand(vehicles)
    /\ AllInBand(unique)
    /\ ValidVehicles(unique) = unique
    /\ stats # <<>> => stats.total_vehicles = Cardinality(RecordIds(vehicles))

\* generate_stats ran on a clip with two vehicles, more per-frame records than
\* vehicles, and a vehicle above the emergency limit
C19_Witness ==
    /\ stats # <<>>
    /\ stats.total_vehicles = 2
    /\ Len(vehicles) > 2
    /\ stats.high_speed_alerts # <<>>

(***************************************************************************)
(* C20.  The vehicle ids under high_speed_alerts of generate_stats are the *)
(* ids whose kept record is above 130 km/h.  Original statement: they are  *)
(* exactly the ids for which update raised a speed alert.  Amended         *)
(* statement: each of them is an id for which update raised a speed alert, *)
(* and an alerted id is under high_speed_alerts exactly when one of its    *)
(* per-frame records is above 130 km/h; an alert raised when the track had *)
(* two positions has no record of its own.                                 *)
(***************************************************************************)
AlertedIds == {alerts[i].id : i \in 1..Len(alerts)}

HighSpeedIds == RecordIds(stats.high_speed_alerts)

\* the original statement: the two sets are equal
C20_AlertedEqualsHighSpeed ==
    stats # <<>> => AlertedIds = HighSpeedIds

\* the amended statement
C20_HighSpeedWereAlerted ==
    stats # <<>> =>
        /\ HighSpeedIds \subseteq AlertedIds
        /\ HighSpeedIds = {unique[i].id : i \in {j \in 1..Len(unique) :
                                                    Above(unique[j].speed, ALERT_SPEED)}}
        /\ \A id \in AlertedIds :
              id \in HighSpeedIds <=>
                 \E k \in 1..Len(vehicles) :
                    vehicles[k].id = id /\ Above(vehicles[k].speed, ALERT_SPEED)

\* generate_stats reported a vehicle whose alert was raised in a call before
\* its first record
C20_Witness ==
    /\ stats # <<>>
    /\ \E i \in 1..Len(alerts), k \in 1..Len(stats.high_speed_alerts) :
          /\ alerts[i].id = stats.high_speed_alerts[k].id
          /\ \A n \in 1..Len(vehicles) :
                vehicles[n].id = alerts[i].id => alerts[i].time < vehicles[n].timestamp

\* generate_stats ran on a clip in which an alert was raised for a vehicle whose
\* records all stay at or below 130 km/h
C20_WitnessAlertWithoutRecord ==
    /\ stats # <<>>
    /\ \E id \in AlertedIds : id \in RecordIds(vehicles) /\ id \notin HighSpeedIds

(***************************************************************************)
(* C21.  With non-decreasing frame times, a track whose last matched       *)
(* detection is 1.0 s or more before a call is matched neither by that     *)
(* call nor by any later one; it stays in tracked_vehicles, unchanged,     *)
(* while it has been unmatched for less than 3.0 s.  The times since the   *)
(* last detection are the differences of the two floats, as the tracker    *)
(* takes them.  Original statement: a                                      *)
(* detection at its last position during that interval starts a new track  *)
(* with a new id.  Amended statement: such a detection never extends the   *)
(* timed-out track; it starts a new track with a new id unless another     *)
(* track, not yet matched in the call, is within the time gate and the     *)
(* distance gate of it, and then it extends one of those.                  *)
(***************************************************************************)
\* the detections of call k that went to track id
AssignedIn(id, k) == \E i \in 1..Len(assignments[k]) : assignments[k][i].id = id

\* the calls before call k in which track id got a detection
SeenBefore(id, k) == {n \in 1..(k - 1) : AssignedIn(id, n)}

\* frame_time of the last of them
LastSeenAt(id, k) ==
    calls[CHOOSE n \in SeenBefore(id, k) : \A m \in SeenBefore(id, k) : m <= n].frame_time

\* at call k the last detection of track id is the time gate or longer ago
TimedOut(id, k) ==
    /\ SeenBefore(id, k) # {}
    /\ ~ElapsedBelow(calls[k].frame_time, LastSeenAt(id, k), TIME_GATE)

NeverMatchedAgain ==
    \A k \in 1..Len(calls) : \A n \in 1..Len(created) :
        TimedOut(created[n], k) =>
            \A m \in k..Len(calls) : ~AssignedIn(created[n], m)

\* at the last call the track u of its pre-state was last seen less than limit
\* seconds ago
SeenWithin(u, limit) == ElapsedBelow(LastTime, u.last_position[3], limit)

\* the tracks of the pre-state that are past the time gate and still in grace
Waiting ==
    {k \in 1..Len(pre.tracked_vehicles) :
        /\ ~SeenWithin(pre.tracked_vehicles[k], TIME_GATE)
        /\ SeenWithin(pre.tracked_vehicles[k], GRACE_PERIOD)}

KeptWhileInGrace ==
    \A k \in 1..Len(pre.tracked_vehicles) :
        LET u == pre.tracked_vehicles[k]
        IN  ~SeenWithin(u, TIME_GATE) =>
               /\ u.id \in TrackIds(tracked_vehicles) <=> SeenWithin(u, GRACE_PERIOD)
               /\ u.id \in TrackIds(tracked_vehicles) =>
                     /\ TrackOf(tracked_vehicles, u.id).positions = u.positions
                     /\ TrackOf(tracked_vehicles, u.id).last_position = u.last_position

\* the j-th detection of the last call is at the last position of track u
AtLastPosition(j, u) ==
    /\ LastCentroid(j)[1] = u.last_position[1]
    /\ LastCentroid(j)[2] = u.last_position[2]

\* a track of the pre-state that the j-th detection of the last call can extend:
\* not taken by an earlier detection, within 1.0 s and within 100 px
Candidates(j) ==
    {k \in 1..Len(pre.tracked_vehicles) :
        LET u == pre.tracked_vehicles[k]
        IN  /\ u.id \notin TakenBefore(j)
            /\ SeenWithin(u, TIME_GATE)
            /\ Dist2(LastCentroid(j)[1] - u.last_position[1],
                     LastCentroid(j)[2] - u.last_position[2])
                  < DISTANCE_GATE * DISTANCE_GATE}

StartsNewTrack(j) ==
    /\ LastAssign[j].new
    /\ LastAssign[j].id >= pre.next_id
    /\ LastAssign[j].id \notin TrackIds(pre.tracked_vehicles)

\* the original statement: the detection always starts a new track
C21_TimedOutPositionAlwaysNew ==
    NonDecreasingCalls =>
        /\ NeverMatchedAgain
        /\ KeptWhileInGrace
        /\ \A k \in Waiting, j \in 1..Len(LastAssign) :
              AtLastPosition(j, pre.tracked_vehicles[k]) => StartsNewTrack(j)

\* the amended statement
C21_TimedOutNeverMatched ==
    NonDecreasingCalls =>
        /\ NeverMatchedAgain
        /\ KeptWhileInGrace
        /\ \A k \in Waiting, j \in 1..Len(LastAssign) :
              AtLastPosition(j, pre.tracked_vehicles[k]) =>
                 /\ LastAssign[j].id # pre.tracked_vehicles[k].id
                 /\ Candidates(j) = {} => StartsNewTrack(j)
                 /\ Candidates(j) # {} =>
                       /\ ~LastAssign[j].new
                       /\ LastAssign[j].id \in
                             {pre.tracked_vehicles[c].id : c \in Candidates(j)}

\* frame times that do not decrease; a track last seen two calls and 2.0 s ago,
\* timed out in both calls since, is still tracked, and the detection of the last
\* call at its last position started a new track
C21_Witness ==
    /\ NonDecreasingCalls
    /\ Len(calls) = 3
    /\ \E k \in Waiting, j \in 1..Len(LastAssign) :
          LET u == pre.tracked_vehicles[k]
          IN  /\ LastTime - u.last_position[3] = 2000
              /\ TimedOut(u.id, 2)
              /\ AtLastPosition(j, u)
              /\ Candidates(j) = {}
              /\ LastAssign[j].new
              /\ u.id \in TrackIds(tracked_vehicles)

\* the detection at the last position of a timed-out track went to another track
C21_WitnessOtherTrack ==
    /\ NonDecreasingCalls
    /\ \E k \in Waiting, j \in 1..Len(LastAssign) :
          /\ AtLastPosition(j, pre.tracked_vehicles[k])
          /\ Candidates(j) # {}
          /\ ~LastAssign[j].new

\* frame times that decrease: a track that was timed out is matched again
C21_WitnessOutOfOrder ==
    ~NeverMatchedAgain

====
